---- MODULE Spec2Model ----
(***************************************************************************)
(* Game of Life engine: the rule sets of src/src/rules.c (bit-mask birth   *)
(* and survival conditions) and the board stepping of src/src/board.c      *)
(* (clamped neighbour scan, double-buffered board_next).                   *)
(*                                                                         *)
(* A board is an object of the heap `boards`, addressed by its id; the id  *)
(* 0 is the NULL pointer.  Its cells are the flat array of the source,     *)
(* indexed 0 .. height*width-1 by row*width+col.  `rules` is the object    *)
(* behind the caller's Rules pointer (NullRules when that pointer is       *)
(* NULL).  Every action is one call of a function of the source; `call`    *)
(* records the call and its return value, `pre` the memory before it.      *)
(*                                                                         *)
(* The front end of src/src/main.c is modelled as well: `state` is the     *)
(* State object of src/src/state.h, `main` holds the local variables of    *)
(* main() and its position, and every event handled by process_events and  *)
(* every pass of the main loop is one action.                              *)
(***************************************************************************)
EXTENDS Integers, Sequences, FiniteSets

VARIABLES
    boards,     \* heap of Board objects: id -> [height, width, cells]
    rules,      \* the Rules object behind the caller's pointer
    result,     \* the caller's int variable passed as `int *result`
    call,       \* the last call: its name, arguments and return value
    pre,        \* boards, rules and result as they were before the last call
    dirty,      \* ghost: the last board_next read a cell it had already written
    state,      \* the State object behind main's pointer (NullState when NULL)
    main,       \* main(): its position and its local variables
    hist        \* ghost: what the run has done so far (counters)

vars == <<boards, rules, result, call, pre, dirty, state, main, hist>>

----------------------------------------------------------------------------
(* Bounds of the model.                                                    *)

\* boards of 1..MaxH rows and 1..MaxW columns, of at most MaxCells cells,
\* are enumerated with every 0/1 content
MaxH == 3
MaxW == 3
MaxCells == 9
\* boards holding a single alive cell are enumerated up to MaxSingle x MaxSingle
MaxSingle == 4
\* rules_init is called with count lists of at most MaxListLen entries
MaxListLen == 2
\* board_init, board_clear, board_from_file and paint_cell_at_mouse are called
\* on boards of 1..MaxOpsH rows and 1..MaxOpsW columns, of at most MaxOpsCells
\* cells, with every 0/1 content
MaxOpsH == 2
MaxOpsW == 2
MaxOpsCells == 4
\* the files handed to board_from_file have at most MaxTextLen bytes
MaxTextLen == 5
\* main() runs on boards of MainHeight rows and columns (64 in the source) and
\* is followed for MaxGens generations
MainHeight == 2
MainWidth == MainHeight
MaxGens == 2

\* entries of the count lists handed to rules_init: in range, the two ends of
\* the range, and out of range on either side
CountValues == {-1, 0, 3, 8, 9}
\* neighbour counts handed to rules_apply
NeighborCounts == -1 .. 9
\* current_state values handed to rules_apply (any non-zero value is alive)
CurrentStates == {0, 1, 2}

----------------------------------------------------------------------------
(* rules.h / rules.c                                                       *)

MAX_NEIGHBORS == 8

\* a NULL Rules pointer
NullRules == [ptr |-> 0, birth_rules |-> 0, survival_rules |-> 0, name |-> ""]

\* mask & (1 << k), as a truth value
BitAnd(mask, k) == (mask \div (2 ^ k)) % 2 = 1

\* mask |= (1 << k) on a uint16_t
BitOr(mask, k) == IF BitAnd(mask, k) THEN mask ELSE (mask + 2 ^ k) % 65536

\* the loop of rules_init over one count list, from index i (1-based here).
\* SetBitsNoUpperCheck is the loop without the test against MAX_NEIGHBORS.
RECURSIVE SetBits(_, _, _, _)
SetBitsNoUpperCheck(mask, counts, i, len) ==
    IF i > len THEN mask
    ELSE SetBits(IF counts[i] >= 0 THEN BitOr(mask, counts[i]) ELSE mask,
                 counts, i + 1, len)
SetBits(mask, counts, i, len) ==
    IF i > len THEN mask
    ELSE SetBits(IF counts[i] >= 0 /\ counts[i] <= MAX_NEIGHBORS
                    THEN BitOr(mask, counts[i])
                    ELSE mask,
                 counts, i + 1, len)

\* rules_init; malloc_ok is whether malloc returns memory, name "" is a NULL name
rules_init(malloc_ok, name, birth_counts, birth_len, survival_counts, survival_len) ==
    IF ~malloc_ok THEN NullRules
    ELSE [ptr |-> 1,
          birth_rules |-> SetBits(0, birth_counts, 1, birth_len),
          survival_rules |-> SetBits(0, survival_counts, 1, survival_len),
          name |-> IF name = "" THEN "Custom" ELSE name]

\* rules_conway; rules_conway_B2 is the preset with birth count 2 for 3
rules_conway_B2(malloc_ok) ==
    rules_init(malloc_ok, "Conway's Life (B3/S23)", <<2>>, 1, <<2, 3>>, 2)
rules_conway(malloc_ok) ==
    rules_init(malloc_ok, "Conway's Life (B3/S23)", <<3>>, 1, <<2, 3>>, 2)

rules_highlife(malloc_ok) ==
    rules_init(malloc_ok, "HighLife (B36/S23)", <<3, 6>>, 2, <<2, 3>>, 2)

rules_day_night(malloc_ok) ==
    rules_init(malloc_ok, "Day & Night (B3678/S34678)",
               <<3, 6, 7, 8>>, 4, <<3, 4, 6, 7, 8>>, 5)

rules_maze(malloc_ok) ==
    rules_init(malloc_ok, "Maze (B3/S12345)", <<3>>, 1, <<1, 2, 3, 4, 5>>, 5)

\* rules_apply: the return value and the value of *result after the call.
\* result_ptr is 0 for a NULL result pointer; old is *result before the call.
\* rules_apply_swapped looks an alive cell up in the birth mask and a dead one
\* in the survival mask; rules_apply_no_range_check lacks the range test.
rules_apply_swapped(r, current_state, neighbor_count, result_ptr, old) ==
    IF r.ptr = 0 \/ result_ptr = 0
       \/ neighbor_count < 0 \/ neighbor_count > MAX_NEIGHBORS
    THEN [ret |-> -1, result |-> old]
    ELSE IF current_state # 0
         THEN [ret |-> 0,
               result |-> IF BitAnd(r.birth_rules, neighbor_count) THEN 1 ELSE 0]
         ELSE [ret |-> 0,
               result |-> IF BitAnd(r.survival_rules, neighbor_count) THEN 1 ELSE 0]
rules_apply_no_range_check(r, current_state, neighbor_count, result_ptr, old) ==
    IF r.ptr = 0 \/ result_ptr = 0
    THEN [ret |-> -1, result |-> old]
    ELSE IF neighbor_count < 0 THEN [ret |-> 0, result |-> 0]
    ELSE IF current_state # 0
         THEN [ret |-> 0,
               result |-> IF BitAnd(r.survival_rules, neighbor_count) THEN 1 ELSE 0]
         ELSE [ret |-> 0,
               result |-> IF BitAnd(r.birth_rules, neighbor_count) THEN 1 ELSE 0]
rules_apply(r, current_state, neighbor_count, result_ptr, old) ==
    IF r.ptr = 0 \/ result_ptr = 0
       \/ neighbor_count < 0 \/ neighbor_count > MAX_NEIGHBORS
    THEN [ret |-> -1, result |-> old]
    ELSE IF current_state # 0
         THEN [ret |-> 0,
               result |-> IF BitAnd(r.survival_rules, neighbor_count) THEN 1 ELSE 0]
         ELSE [ret |-> 0,
               result |-> IF BitAnd(r.birth_rules, neighbor_count) THEN 1 ELSE 0]

----------------------------------------------------------------------------
(* board.h / board.c                                                       *)

MAX(x, y) == IF x > y THEN x ELSE y
MIN(x, y) == IF x < y THEN x ELSE y

\* a Board object with the given cell contents (row-major flat array)
Board(height, width, cells) == [height |-> height, width |-> width, cells |-> cells]

\* upper end of the row/column scan: MIN(x+1, size-1)
ScanEnd(x, size) == MIN(x + 1, size - 1)

\* lower end of the row/column scan: MAX((int)x-1, 0).
\* ScanStartUnsigned is the scan without the (int) cast: for x = 0 the
\* unsigned x-1 wraps to the largest size_t (here the largest 32-bit int).
ScanStartUnsigned(x) == IF x = 0 THEN 2147483647 ELSE x - 1
ScanStart(x) == MAX(x - 1, 0)

\* the value count += board->cells[index] adds for the cell (i, j)
CellAt(b, i, j) == b.cells[i * b.width + j]

\* the nested loops of is_cell_alive_next_gen at (i, j), `count` counted so
\* far.  NeighborLoopCountsSelf is the loop without `if (i == x && j == y)`.
RECURSIVE NeighborLoop(_, _, _, _, _, _)
NeighborLoopCountsSelf(b, x, y, i, j, count) ==
    IF i > ScanEnd(x, b.height) THEN count
    ELSE IF j > ScanEnd(y, b.width)
         THEN NeighborLoop(b, x, y, i + 1, ScanStart(y), count)
         ELSE NeighborLoop(b, x, y, i, j + 1, count + CellAt(b, i, j))
NeighborLoop(b, x, y, i, j, count) ==
    IF i > ScanEnd(x, b.height) THEN count
    ELSE IF j > ScanEnd(y, b.width)
         THEN NeighborLoop(b, x, y, i + 1, ScanStart(y), count)
         ELSE IF i = x /\ j = y
              THEN NeighborLoop(b, x, y, i, j + 1, count)
              ELSE NeighborLoop(b, x, y, i, j + 1, count + CellAt(b, i, j))

\* the local variable `count` of is_cell_alive_next_gen after its loops.
\* NeighborCountTorus is the count on a board whose edges wrap around.
NeighborCountTorus(b, x, y) ==
    LET Wrapped(di, dj) == CellAt(b, (x + di) % b.height, (y + dj) % b.width)
    IN  Wrapped(-1, -1) + Wrapped(-1, 0) + Wrapped(-1, 1)
        + Wrapped(0, -1) + Wrapped(0, 1)
        + Wrapped(1, -1) + Wrapped(1, 0) + Wrapped(1, 1)
NeighborCount(b, x, y) == NeighborLoop(b, x, y, ScanStart(x), ScanStart(y), 0)

\* ghost: the indices of board->cells that is_cell_alive_next_gen(x, y) reads
ReadIndices(b, x, y) ==
    { i * b.width + j : i \in ScanStart(x) .. ScanEnd(x, b.height),
                        j \in ScanStart(y) .. ScanEnd(y, b.width) }

\* is_cell_alive_next_gen: the return value and *result after the call.
\* board is a board id of heap (0 is NULL); result_ptr and old as in rules_apply.
is_cell_alive_next_gen(heap, board, r, x, y, result_ptr, old) ==
    IF board = 0 \/ r.ptr = 0 \/ result_ptr = 0
    THEN [ret |-> -1, result |-> old]
    ELSE IF x >= heap[board].height \/ y >= heap[board].width
    THEN [ret |-> -1, result |-> old]
    ELSE rules_apply(r, CellAt(heap[board], x, y),
                     NeighborCount(heap[board], x, y), result_ptr, old)

\* the loop of board_next from flat index i on; heap is the memory so far,
\* d the ghost flag "a cell written by this call has been read by it".
\* NextLoopSwappedXY takes the row for the column; NextLoopInPlace writes the
\* new cell into the input board as well; NextLoopOnlyAlive writes the cells
\* that are alive in the next generation and leaves the others as they are.
RECURSIVE NextLoop(_, _, _, _, _, _)
NextLoopSwappedXY(heap, board, out, r, i, d) ==
    IF ~(i < heap[board].width * heap[board].height)
    THEN [ret |-> 0, boards |-> heap, dirty |-> d]
    ELSE LET x == i % heap[board].width
             y == i \div heap[board].width
             cell == is_cell_alive_next_gen(heap, board, r, x, y, 1, 0)
         IN  IF cell.ret = -1
             THEN [ret |-> -1, boards |-> heap, dirty |-> d]
             ELSE NextLoop([heap EXCEPT ![out].cells[i] = cell.result],
                           board, out, r, i + 1, d)
NextLoopInPlace(heap, board, out, r, i, d) ==
    IF ~(i < heap[board].width * heap[board].height)
    THEN [ret |-> 0, boards |-> heap, dirty |-> d]
    ELSE LET x == i \div heap[board].width
             y == i % heap[board].width
             cell == is_cell_alive_next_gen(heap, board, r, x, y, 1, 0)
         IN  IF cell.ret = -1
             THEN [ret |-> -1, boards |-> heap, dirty |-> d]
             ELSE NextLoop([heap EXCEPT ![board].cells[i] = cell.result,
                                        ![out].cells[i] = cell.result],
                           board, out, r, i + 1,
                           d \/ \E k \in ReadIndices(heap[board], x, y) : k < i)
NextLoopOnlyAlive(heap, board, out, r, i, d) ==
    IF ~(i < heap[board].width * heap[board].height)
    THEN [ret |-> 0, boards |-> heap, dirty |-> d]
    ELSE LET x == i \div heap[board].width
             y == i % heap[board].width
             cell == is_cell_alive_next_gen(heap, board, r, x, y, 1, 0)
         IN  IF cell.ret = -1
             THEN [ret |-> -1, boards |-> heap, dirty |-> d]
             ELSE NextLoop(IF cell.result = 1
                           THEN [heap EXCEPT ![out].cells[i] = 1]
                           ELSE heap,
                           board, out, r, i + 1, d)
NextLoop(heap, board, out, r, i, d) ==
    IF ~(i < heap[board].width * heap[board].height)
    THEN [ret |-> 0, boards |-> heap, dirty |-> d]
    ELSE LET x == i \div heap[board].width
             y == i % heap[board].width
             \* int cell_result is uninitialised; it is read only after
             \* is_cell_alive_next_gen has written it, so its value is immaterial
             cell == is_cell_alive_next_gen(heap, board, r, x, y, 1, 0)
         IN  IF cell.ret = -1
             THEN [ret |-> -1, boards |-> heap, dirty |-> d]
             ELSE NextLoop([heap EXCEPT ![out].cells[i] = cell.result],
                           board, out, r, i + 1,
                           d \/ (board = out
                                 /\ \E k \in ReadIndices(heap[board], x, y) : k < i))

\* board_next: the return value, the memory after the call and the ghost flag.
\* board_next_no_dim_check only requires that out has room for the cells.
board_next_no_dim_check(heap, board, out, r) ==
    IF board = 0 \/ out = 0 \/ r.ptr = 0
    THEN [ret |-> -1, boards |-> heap, dirty |-> FALSE]
    ELSE IF heap[board].width * heap[board].height
            > heap[out].width * heap[out].height
    THEN [ret |-> -1, boards |-> heap, dirty |-> FALSE]
    ELSE NextLoop(heap, board, out, r, 0, FALSE)
board_next(heap, board, out, r) ==
    IF board = 0 \/ out = 0 \/ r.ptr = 0
    THEN [ret |-> -1, boards |-> heap, dirty |-> FALSE]
    ELSE IF heap[board].width # heap[out].width
            \/ heap[board].height # heap[out].height
    THEN [ret |-> -1, boards |-> heap, dirty |-> FALSE]
    ELSE NextLoop(heap, board, out, r, 0, FALSE)

----------------------------------------------------------------------------
(* The other functions of src/src/board.c.  A call that writes or reads    *)
(* through a NULL cells pointer does not return: its outcome is Crash.     *)

\* Board.cells when calloc returned NULL
NullCells == <<>>

\* in place of the return value of a call that does not return because the
\* access through a NULL pointer ends the process (SIGSEGV, exit status 139);
\* no function of the source returns this value
Crash == 139

\* the pointer malloc returns: an id no object of heap has
NewId(heap) ==
    IF DOMAIN heap = {} THEN 1
    ELSE (CHOOSE m \in DOMAIN heap : \A k \in DOMAIN heap : k <= m) + 1

\* heap with the object b stored under id
Alloc(heap, id, b) ==
    [k \in DOMAIN heap \cup {id} |-> IF k = id THEN b ELSE heap[k]]

\* board_init: the pointer returned (0 is NULL) and the memory after the call;
\* malloc_ok and calloc_ok tell whether the two allocations succeed.  The
\* result of calloc is stored unchecked.
board_init(heap, malloc_ok, calloc_ok, height, width) ==
    IF ~malloc_ok
    THEN [ret |-> 0, boards |-> heap]
    ELSE [ret |-> NewId(heap),
          boards |-> Alloc(heap, NewId(heap),
                           Board(height, width,
                                 IF calloc_ok
                                 THEN [k \in 0 .. height * width - 1 |-> 0]
                                 ELSE NullCells))]

\* the loop of board_clear from index i on.  ClearLoopFromOne starts the
\* loop one cell late.
RECURSIVE ClearLoop(_, _, _)
ClearLoopFromOne(heap, board, i) ==
    IF ~(i + 1 < heap[board].width * heap[board].height)
    THEN heap
    ELSE ClearLoop([heap EXCEPT ![board].cells[i + 1] = 0], board, i + 2)
ClearLoop(heap, board, i) ==
    IF ~(i < heap[board].width * heap[board].height)
    THEN heap
    ELSE ClearLoop([heap EXCEPT ![board].cells[i] = 0], board, i + 1)

\* board_clear: the return value and the memory after the call
board_clear(heap, board) ==
    IF board = 0
    THEN [ret |-> -1, boards |-> heap]
    ELSE IF heap[board].cells = NullCells
    THEN [ret |-> Crash, boards |-> heap]
    ELSE [ret |-> 0, boards |-> ClearLoop(heap, board, 0)]

\* randint(min, max) for the value rnd that rand() returns
randint(min, max, rnd) == (rnd % (max + 1 - min)) + min

\* the loop of board_random_fill from index i on; rnd[i] is the value rand()
\* returns for cell i: the loop makes one call of rand() per cell, in the
\* order of the cells, and no call of srand().
\* FillLoopKeepsAlive leaves a cell alone when its draw is not 0;
\* FillLoopStoresDraw stores the value randint returns.
RECURSIVE FillLoop(_, _, _, _)
FillLoopStoresDraw(heap, board, rnd, i) ==
    IF ~(i < heap[board].width * heap[board].height)
    THEN heap
    ELSE FillLoop([heap EXCEPT ![board].cells[i] = randint(0, 4, rnd[i])],
                  board, rnd, i + 1)
FillLoopKeepsAlive(heap, board, rnd, i) ==
    IF ~(i < heap[board].width * heap[board].height)
    THEN heap
    ELSE FillLoop(IF randint(0, 4, rnd[i]) = 0
                  THEN [heap EXCEPT ![board].cells[i] = 1]
                  ELSE heap,
                  board, rnd, i + 1)
FillLoop(heap, board, rnd, i) ==
    IF ~(i < heap[board].width * heap[board].height)
    THEN heap
    ELSE FillLoop([heap EXCEPT ![board].cells[i] =
                       IF randint(0, 4, rnd[i]) = 0 THEN 1 ELSE 0],
                  board, rnd, i + 1)

\* board_random_fill: the return value and the memory after the call
board_random_fill(heap, board, rnd) ==
    IF board = 0
    THEN [ret |-> -1, boards |-> heap]
    ELSE IF heap[board].cells = NullCells
    THEN [ret |-> Crash, boards |-> heap]
    ELSE [ret |-> 0, boards |-> FillLoop(heap, board, rnd, 0)]

\* a file: whether fopen succeeds on it, and its bytes (each 0..255)
File(readable, bytes) == [readable |-> readable, bytes |-> bytes]

\* the value of the macro EOF, and the codes of the characters the loader tests
EOF == -1
NEWLINE == 10
ZERO == 48

\* `char c = fgetc(file)`: the int that fgetc returns (EOF or 0..255) stored in
\* a char, which is signed in this build, and promoted back to int
ToChar(v) == IF v >= 128 THEN v - 256 ELSE v

\* the while loop of board_from_file: k is the position of the next byte of
\* the file, x and y the row and the column the next character goes to.
RECURSIVE ReadLoop(_, _, _, _, _, _)
ReadLoop(heap, board, bytes, k, x, y) ==
    LET c == ToChar(IF k > Len(bytes) THEN EOF ELSE bytes[k])
    IN  IF c = EOF
        THEN [ret |-> 0, boards |-> heap]
        ELSE IF c = NEWLINE
        THEN ReadLoop(heap, board, bytes, k + 1, x + 1, 0)
        ELSE IF x >= heap[board].height \/ y >= heap[board].width
        THEN [ret |-> -1, boards |-> heap]
        ELSE ReadLoop([heap EXCEPT ![board].cells[x * heap[board].width + y] =
                           IF c # ZERO THEN 1 ELSE 0],
                      board, bytes, k + 1, x, y + 1)

\* board_from_file: the return value and the memory after the call; filename
\* is 0 for a NULL pointer, file is the file of that name.
\* board_from_file_clears_first clears the board before it opens the file.
board_from_file_clears_first(heap, filename, board, file) ==
    IF filename = 0 \/ board = 0
    THEN [ret |-> -1, boards |-> heap]
    ELSE LET cleared == board_clear(heap, board)
         IN  IF cleared.ret = Crash
             THEN cleared
             ELSE IF ~file.readable
             THEN [ret |-> -1, boards |-> cleared.boards]
             ELSE ReadLoop(cleared.boards, board, file.bytes, 1, 0, 0)
board_from_file(heap, filename, board, file) ==
    IF filename = 0 \/ board = 0
    THEN [ret |-> -1, boards |-> heap]
    ELSE IF ~file.readable
    THEN [ret |-> -1, boards |-> heap]
    ELSE LET cleared == board_clear(heap, board)
         IN  IF cleared.ret = Crash
             THEN cleared
             ELSE ReadLoop(cleared.boards, board, file.bytes, 1, 0, 0)

----------------------------------------------------------------------------
(* The State object of src/src/state.h and the functions of src/src/main.c *)
(* that the event handling uses.                                           *)

PIXEL_SIZE == 10
NUM_RULE_SETS == 4

\* the object behind a State pointer; ptr is 0 for the NULL pointer.
\* loaded_filename is 0 (NULL) or the name of the file.
State(keep_alive, pause, loaded_filename, current_rule_index, is_dragging, drag_paint_mode) ==
    [ptr |-> 1, keep_alive |-> keep_alive, pause |-> pause,
     loaded_filename |-> loaded_filename,
     current_rule_index |-> current_rule_index,
     is_dragging |-> is_dragging, drag_paint_mode |-> drag_paint_mode]

NullState ==
    [ptr |-> 0, keep_alive |-> 0, pause |-> 0, loaded_filename |-> 0,
     current_rule_index |-> 0, is_dragging |-> 0, drag_paint_mode |-> 0]

\* state_init: the return value and the object *state_ptr points to
state_init(malloc_ok) ==
    IF ~malloc_ok
    THEN [ret |-> -1, state |-> NullState]
    ELSE [ret |-> 0, state |-> State(1, 0, 0, 0, 0, 1)]

\* the operator ! of C on an integer
LogicalNot(v) == IF v = 0 THEN 1 ELSE 0

\* the operator / of C on ints, for a positive divisor: rounds towards zero
CDiv(a, b) == IF a >= 0 THEN a \div b ELSE -((-a) \div b)

\* paint_cell_at_mouse: the return value and the memory after the call; st is
\* the State object.  paint_cell_at_mouse_transposed takes the mouse's x for
\* the row.
paint_cell_at_mouse_transposed(heap, mouse_x, mouse_y, board, st) ==
    IF board = 0 \/ st.ptr = 0
    THEN [ret |-> -1, boards |-> heap]
    ELSE LET board_y == CDiv(mouse_y, PIXEL_SIZE) - 1
             board_x == CDiv(mouse_x, PIXEL_SIZE) - 1
         IN  IF board_x < 0 \/ board_y < 0
                \/ board_x >= heap[board].height \/ board_y >= heap[board].width
             THEN [ret |-> -1, boards |-> heap]
             ELSE [ret |-> 0,
                   boards |-> [heap EXCEPT
                       ![board].cells[board_x * heap[board].width + board_y] =
                           st.drag_paint_mode]]
paint_cell_at_mouse(heap, mouse_x, mouse_y, board, st) ==
    IF board = 0 \/ st.ptr = 0
    THEN [ret |-> -1, boards |-> heap]
    ELSE LET board_y == CDiv(mouse_x, PIXEL_SIZE) - 1
             board_x == CDiv(mouse_y, PIXEL_SIZE) - 1
         IN  IF board_x < 0 \/ board_y < 0
                \/ board_x >= heap[board].height \/ board_y >= heap[board].width
             THEN [ret |-> -1, boards |-> heap]
             ELSE [ret |-> 0,
                   boards |-> [heap EXCEPT
                       ![board].cells[board_x * heap[board].width + board_y] =
                           st.drag_paint_mode]]

\* state_set_filename: the return value and the State object after the call;
\* filename is 0 for NULL, malloc_ok tells whether the copy can be allocated
state_set_filename(st, filename, malloc_ok) ==
    IF st.ptr = 0
    THEN [ret |-> -1, state |-> st]
    ELSE IF filename = 0
    THEN [ret |-> 0, state |-> [st EXCEPT !.loaded_filename = 0]]
    ELSE IF ~malloc_ok
    THEN [ret |-> -1, state |-> [st EXCEPT !.loaded_filename = 0]]
    ELSE [ret |-> 0, state |-> [st EXCEPT !.loaded_filename = filename]]

\* rule_creators[index](): the object the creator returns
rule_creators(index, malloc_ok) ==
    CASE index = 0 -> rules_conway(malloc_ok)
      [] index = 1 -> rules_highlife(malloc_ok)
      [] index = 2 -> rules_day_night(malloc_ok)
      [] index = 3 -> rules_maze(malloc_ok)

\* load_board_from_file: the return value and the memory after the call
load_board_from_file(heap, filename, board, file) ==
    IF filename = 0 \/ board = 0
    THEN [ret |-> -1, boards |-> heap]
    ELSE LET res == board_from_file(heap, filename, board, file)
         IN  IF res.ret = Crash \/ res.ret = 0
             THEN res
             ELSE [ret |-> -1, boards |-> res.boards]

\* set_pixel_color: the return value; sdl_ok tells whether the calls of SDL
\* succeed
set_pixel_color(cell, sdl_ok) ==
    IF cell # 0 /\ cell # 1 THEN -1
    ELSE IF sdl_ok THEN 0 ELSE -1

\* board_draw: the return value (the renderer is never NULL in the loop)
board_draw(heap, board, sdl_ok) ==
    IF board = 0 THEN -1
    ELSE IF \E i \in 0 .. heap[board].width * heap[board].height - 1 :
                set_pixel_color(heap[board].cells[i], sdl_ok) # 0
    THEN -1
    ELSE 0

\* heap without the objects of ids
Free(heap, ids) == [k \in DOMAIN heap \ ids |-> heap[k]]

\* board_free: the return value and the memory after the call; the cell
\* buffer and the Board structure are released together
board_free(heap, board) ==
    IF board = 0
    THEN [ret |-> -1, boards |-> heap]
    ELSE [ret |-> 0, boards |-> Free(heap, {board})]

\* main() before it has run, and the ghost record before anything happened:
\* gens counts the generations computed, space tells whether a SPACE key
\* event has been handled, ctrl whether Ctrl was held at the last button
\* press that started a drag, made is the set of the boards board_init has
\* returned, freed the sequence of the boards handed to board_free, and
\* quit_gens counts the generations computed after a quit event
NoMain == [pc |-> "none"]
NoHist ==
    [gens |-> 0, space |-> FALSE, ctrl |-> FALSE, made |-> {}, freed |-> <<>>,
     quit_gens |-> 0]

----------------------------------------------------------------------------
(* The accesses to board->cells that the functions make: an access is the  *)
(* triple (row, column, index) of the cell and the index used for it.  The *)
(* loops over the flat index i access the cell (i / width, i % width).     *)

\* board_clear and board_random_fill: `cells[i]` for i < width * height
FlatAccesses(b) ==
    { <<i \div b.width, i % b.width, i>> : i \in 0 .. b.width * b.height - 1 }

\* is_cell_alive_next_gen(x, y): `cells[i * width + j]` in the two loops and
\* `cells[x * width + y]` after them
ScanAccesses(b, x, y) ==
    { <<i, j, i * b.width + j>> : i \in ScanStart(x) .. ScanEnd(x, b.height),
                                  j \in ScanStart(y) .. ScanEnd(y, b.width) }
    \cup { <<x, y, x * b.width + y>> }

\* board_next: the accesses of is_cell_alive_next_gen for x = i / width and
\* y = i % width, and `out->cells[i]`
NextAccesses(b) ==
    UNION { ScanAccesses(b, i \div b.width, i % b.width)
            \cup { <<i \div b.width, i % b.width, i>> } :
            i \in 0 .. b.width * b.height - 1 }

\* the while loop of board_from_file from byte k on: `cells[x * width + y]`.
\* LoadAccessesNoColumnCheck is the loop that tests the row only.
RECURSIVE LoadAccesses(_, _, _, _, _)
LoadAccessesNoColumnCheck(b, bytes, k, x, y) ==
    LET c == ToChar(IF k > Len(bytes) THEN EOF ELSE bytes[k])
    IN  IF c = EOF THEN {}
        ELSE IF c = NEWLINE THEN LoadAccesses(b, bytes, k + 1, x + 1, 0)
        ELSE IF x >= b.height THEN {}
        ELSE { <<x, y, x * b.width + y>> }
             \cup LoadAccesses(b, bytes, k + 1, x, y + 1)
LoadAccesses(b, bytes, k, x, y) ==
    LET c == ToChar(IF k > Len(bytes) THEN EOF ELSE bytes[k])
    IN  IF c = EOF THEN {}
        ELSE IF c = NEWLINE THEN LoadAccesses(b, bytes, k + 1, x + 1, 0)
        ELSE IF x >= b.height \/ y >= b.width THEN {}
        ELSE { <<x, y, x * b.width + y>> }
             \cup LoadAccesses(b, bytes, k + 1, x, y + 1)

\* paint_cell_at_mouse: `cells[board_x * width + board_y]`
PaintAccesses(b, mouse_x, mouse_y) ==
    LET board_y == CDiv(mouse_x, PIXEL_SIZE) - 1
        board_x == CDiv(mouse_y, PIXEL_SIZE) - 1
    IN  IF board_x < 0 \/ board_y < 0 \/ board_x >= b.height \/ board_y >= b.width
        THEN {}
        ELSE { <<board_x, board_y, board_x * b.width + board_y>> }

----------------------------------------------------------------------------
(* Inputs.                                                                 *)

\* the boards of the heap: 1 holds the input pattern, 2 is a second board of
\* the same dimensions, 3 has one more row and 4 one more column
BoardIds == {1, 2, 3, 4}

\* every 0/1 content of a flat cell array of n cells
AllCells(n) == [0 .. n - 1 -> {0, 1}]

\* the board board_init returns: all cells dead
DeadBoard(height, width) == Board(height, width, [k \in 0 .. height * width - 1 |-> 0])

\* the board whose alive cells are exactly the (row, col) pairs of `alive`
BoardOf(height, width, alive) ==
    Board(height, width,
          [k \in 0 .. height * width - 1 |->
              IF <<k \div width, k % width>> \in alive THEN 1 ELSE 0])

\* the dimensions (height, width) whose boards are enumerated exhaustively
SmallDims == { d \in (1 .. MaxH) \X (1 .. MaxW) : d[1] * d[2] <= MaxCells }

SmallBoards ==
    UNION { { Board(d[1], d[2], c) : c \in AllCells(d[1] * d[2]) } : d \in SmallDims }

SingleCellBoards ==
    UNION { { BoardOf(h, w, {<<k \div w, k % w>>}) : k \in 0 .. h * w - 1 } :
            h \in 1 .. MaxSingle, w \in 1 .. MaxSingle }

\* the horizontal and the vertical blinker on the 5x5 board
HBlinker == BoardOf(5, 5, {<<2, 1>>, <<2, 2>>, <<2, 3>>})
VBlinker == BoardOf(5, 5, {<<1, 2>>, <<2, 2>>, <<3, 2>>})

InputBoards == SmallBoards \cup SingleCellBoards \cup {HBlinker}

\* the rule sets the boards are stepped under: the four presets and a custom
\* rule set with birth on 0 or 1 neighbours and survival on 0 or 8
RuleInputs ==
    { rules_conway(TRUE), rules_highlife(TRUE), rules_day_night(TRUE),
      rules_maze(TRUE), rules_init(TRUE, "", <<0, 1>>, 2, <<0, 8>>, 2) }

\* the count lists handed to rules_init
CountLists == UNION { [1 .. n -> CountValues] : n \in 0 .. MaxListLen }

NoCall == [op |-> "none", args |-> <<>>, ret |-> 0]

----------------------------------------------------------------------------
(* board_next called once on enumerated memory: board 1 holds any of the   *)
(* input patterns, board 2 has the same dimensions and is all dead (as     *)
(* board_init leaves it) or all alive (left over from earlier use), boards *)
(* 3 and 4 differ from board 1 in height and in width.                     *)

Heap(b, fill) ==
    [id \in BoardIds |->
        IF id = 1 THEN b
        ELSE IF id = 2
             THEN Board(b.height, b.width, [k \in 0 .. b.height * b.width - 1 |-> fill])
        ELSE IF id = 3 THEN DeadBoard(b.height + 1, b.width)
        ELSE DeadBoard(b.height, b.width + 1)]

InitBoard ==
    \E b \in InputBoards, r \in RuleInputs, fill \in {0, 1} :
        /\ boards = Heap(b, fill)
        /\ rules = r
        /\ result = 0
        /\ call = NoCall
        /\ pre = [boards |-> boards, rules |-> rules, result |-> result]
        /\ dirty = FALSE
        /\ state = NullState
        /\ main = NoMain
        /\ hist = NoHist

\* one call board_next(board, out, r)
BoardNextCall(board, out, r) ==
    LET res == board_next(boards, board, out, r)
    IN  /\ boards' = res.boards
        /\ dirty' = res.dirty
        /\ call' = [op |-> "board_next",
                    args |-> [board |-> board, out |-> out, rules |-> r.ptr],
                    ret |-> res.ret]
        /\ pre' = [boards |-> boards, rules |-> rules, result |-> result]
        /\ UNCHANGED <<rules, result, state, main, hist>>

\* board_next from one board into another of the same dimensions
BoardNext == BoardNextCall(1, 2, rules) \/ BoardNextCall(2, 1, rules)

\* board_next with the same board as input and as output
BoardNextInPlace == BoardNextCall(1, 1, rules)

\* board_next into, or from, a board of another height or width
BoardNextMismatch ==
    \/ BoardNextCall(1, 3, rules)
    \/ BoardNextCall(1, 4, rules)
    \/ BoardNextCall(3, 1, rules)

\* board_next with a NULL argument
BoardNextNull ==
    \/ BoardNextCall(0, 2, rules)
    \/ BoardNextCall(1, 0, rules)
    \/ BoardNextCall(1, 2, NullRules)

NextBoard ==
    \/ call = NoCall /\ BoardNext
    \/ call = NoCall /\ BoardNextInPlace
    \/ call = NoCall /\ BoardNextMismatch
    \/ call = NoCall /\ BoardNextNull

SpecBoard == InitBoard /\ [][NextBoard]_vars

----------------------------------------------------------------------------
(* Repeated stepping, as the main loop does it: the 5x5 board with the     *)
(* horizontal blinker and a second, dead 5x5 board, stepped any number of  *)
(* times in either direction (the caller swaps the two pointers).          *)

InitSteps ==
    \E r \in RuleInputs :
        /\ boards = Heap(HBlinker, 0)
        /\ rules = r
        /\ result = 0
        /\ call = NoCall
        /\ pre = [boards |-> boards, rules |-> rules, result |-> result]
        /\ dirty = FALSE
        /\ state = NullState
        /\ main = NoMain
        /\ hist = NoHist

NextSteps == BoardNext \/ BoardNextMismatch \/ BoardNextNull

SpecSteps == InitSteps /\ [][NextSteps]_vars

----------------------------------------------------------------------------
(* The rule sets: the first call is a constructor, which fills the         *)
(* caller's NULL pointer; rules_apply is then called on what it returned   *)
(* (NULL when malloc failed) any number of times.                          *)

InitRules ==
    /\ boards = [id \in BoardIds |-> DeadBoard(1, 1)]
    /\ rules = NullRules
    /\ result \in {0, 7}
    /\ call = NoCall
    /\ pre = [boards |-> boards, rules |-> rules, result |-> result]
    /\ dirty = FALSE
    /\ state = NullState
    /\ main = NoMain
    /\ hist = NoHist

\* the caller's pointer now points to the object r a constructor returned
\* (ret is 0 for a NULL return); a constructor is handed no Rules object and
\* no result variable
Constructed(op, args, r) ==
    /\ rules' = r
    /\ call' = [op |-> op, args |-> args, ret |-> r.ptr]
    /\ pre' = [boards |-> boards, rules |-> NullRules, result |-> result]
    /\ UNCHANGED <<boards, result, dirty, state, main, hist>>

RulesInit ==
    /\ call = NoCall
    /\ \E malloc_ok \in BOOLEAN, birth_counts \in CountLists,
          survival_counts \in CountLists :
           Constructed("rules_init",
                       [malloc_ok |-> malloc_ok,
                        birth_counts |-> birth_counts,
                        survival_counts |-> survival_counts],
                       rules_init(malloc_ok, "", birth_counts, Len(birth_counts),
                                  survival_counts, Len(survival_counts)))

RulesConway ==
    /\ call = NoCall
    /\ \E malloc_ok \in BOOLEAN :
           Constructed("rules_conway", [malloc_ok |-> malloc_ok], rules_conway(malloc_ok))

RulesHighlife ==
    /\ call = NoCall
    /\ \E malloc_ok \in BOOLEAN :
           Constructed("rules_highlife", [malloc_ok |-> malloc_ok], rules_highlife(malloc_ok))

RulesDayNight ==
    /\ call = NoCall
    /\ \E malloc_ok \in BOOLEAN :
           Constructed("rules_day_night", [malloc_ok |-> malloc_ok], rules_day_night(malloc_ok))

RulesMaze ==
    /\ call = NoCall
    /\ \E malloc_ok \in BOOLEAN :
           Constructed("rules_maze", [malloc_ok |-> malloc_ok], rules_maze(malloc_ok))

\* one call rules_apply(rules, current_state, neighbor_count, &result), or with
\* a NULL result pointer
RulesApply ==
    /\ call # NoCall
    /\ \E current_state \in CurrentStates, neighbor_count \in NeighborCounts,
          result_ptr \in {0, 1} :
           LET res == rules_apply(rules, current_state, neighbor_count,
                                  result_ptr, result)
           IN  /\ result' = res.result
               /\ call' = [op |-> "rules_apply",
                           args |-> [current_state |-> current_state,
                                     neighbor_count |-> neighbor_count,
                                     result_ptr |-> result_ptr],
                           ret |-> res.ret]
               /\ pre' = [boards |-> boards, rules |-> rules, result |-> result]
               /\ UNCHANGED <<boards, rules, dirty, state, main, hist>>

NextRules ==
    \/ RulesInit
    \/ RulesConway
    \/ RulesHighlife
    \/ RulesDayNight
    \/ RulesMaze
    \/ RulesApply

SpecRules == InitRules /\ [][NextRules]_vars

----------------------------------------------------------------------------
(* Properties of the rule sets (checked under SpecRules).                  *)

\* the neighbour counts a mask stands for: the positions of its set bits
MaskCounts(mask) == { k \in 0 .. 15 : mask % (2 ^ (k + 1)) >= 2 ^ k }

\* the entries of a count list
Entries(counts) == { counts[i] : i \in 1 .. Len(counts) }

\* rules_apply was called on a rule set, with a result variable
AppliedToRules ==
    /\ call.op = "rules_apply"
    /\ pre.rules.ptr # 0
    /\ call.args.result_ptr # 0

\* C5: for a neighbour count in 0..8 rules_apply returns 0 and sets result to 1
\* exactly when the cell is alive and the count is a survival count, or the
\* cell is dead and the count is a birth count, and to 0 otherwise; the rule
\* set is left as it was.
C5_ApplyFollowsMasks ==
    (AppliedToRules /\ call.args.neighbor_count \in 0 .. 8) =>
        /\ call.ret = 0
        /\ result =
              IF \/ /\ call.args.current_state # 0
                    /\ call.args.neighbor_count \in MaskCounts(pre.rules.survival_rules)
                 \/ /\ call.args.current_state = 0
                    /\ call.args.neighbor_count \in MaskCounts(pre.rules.birth_rules)
              THEN 1 ELSE 0
        /\ rules = pre.rules

\* an alive cell (current_state 2) with 2 neighbours survives under HighLife,
\* where 2 is a survival count and no birth count
C5_Witness ==
    /\ AppliedToRules
    /\ rules = rules_highlife(TRUE)
    /\ call.args.current_state = 2
    /\ call.args.neighbor_count = 2
    /\ call.ret = 0
    /\ pre.result = 0
    /\ result = 1

\* C6: with a neighbour count below 0 or above 8 rules_apply returns -1 and
\* the caller's result variable keeps the value it had.
C6_OutOfRangeCountRejected ==
    (call.op = "rules_apply" /\ call.args.neighbor_count \notin 0 .. 8) =>
        /\ call.ret = -1
        /\ result = pre.result

\* count 9 on the Maze rule set, the result variable still holding the 1 an
\* earlier call left there
C6_Witness ==
    /\ AppliedToRules
    /\ rules = rules_maze(TRUE)
    /\ call.args.neighbor_count = 9
    /\ call.args.current_state = 1
    /\ call.ret = -1
    /\ pre.result = 1
    /\ result = 1

\* a preset constructor returned a rule set with these birth and survival counts
PresetIs(op, birth, survival) ==
    (call.op = op /\ call.ret # 0) =>
        /\ MaskCounts(rules.birth_rules) = birth
        /\ MaskCounts(rules.survival_rules) = survival

\* C7: the presets are Conway B3/S23, HighLife B36/S23, Day & Night
\* B3678/S34678 and Maze B3/S12345, bit for bit.
C7_PresetMasks ==
    /\ PresetIs("rules_conway", {3}, {2, 3})
    /\ PresetIs("rules_highlife", {3, 6}, {2, 3})
    /\ PresetIs("rules_day_night", {3, 6, 7, 8}, {3, 4, 6, 7, 8})
    /\ PresetIs("rules_maze", {3}, {1, 2, 3, 4, 5})

C7_Witness ==
    /\ call.op = "rules_conway"
    /\ call.ret # 0
    /\ rules.birth_rules = 8
    /\ rules.survival_rules = 12

\* C8: rules_init sets bit k of the birth (survival) mask if and only if k is
\* in 0..8 and occurs in the birth (survival) list; no higher bit is set, and
\* the call fails only when malloc does.
C8_InitMasksFromLists ==
    (call.op = "rules_init") =>
        /\ (call.ret # 0) <=> call.args.malloc_ok
        /\ (call.ret # 0) =>
              /\ MaskCounts(rules.birth_rules)
                    = Entries(call.args.birth_counts) \cap (0 .. 8)
              /\ MaskCounts(rules.survival_rules)
                    = Entries(call.args.survival_counts) \cap (0 .. 8)
              /\ rules.birth_rules < 2 ^ 9
              /\ rules.survival_rules < 2 ^ 9

\* lists with entries on both sides of the range next to the ends of the range
C8_Witness ==
    /\ call.op = "rules_init"
    /\ call.ret # 0
    /\ call.args.birth_counts = <<9, 8>>
    /\ call.args.survival_counts = <<-1, 0>>
    /\ rules.birth_rules = 256
    /\ rules.survival_rules = 1

----------------------------------------------------------------------------
(* Properties of board_next (checked under SpecBoard).                     *)

\* all cells of the board are dead or alive, nothing else
ZeroOne(b) == \A k \in DOMAIN b.cells : b.cells[k] \in {0, 1}

\* the cell (r, c) of board b
Cell(b, r, c) == b.cells[r * b.width + c]

\* the positions of board b
Positions(b) == (0 .. b.height - 1) \X (0 .. b.width - 1)

\* distance between two row or column numbers
Dist(a, b) == IF a < b THEN b - a ELSE a - b

\* the number of alive cells among the cells of the grid adjacent to (r, c),
\* diagonals included
AliveAdjacent(b, r, c) ==
    Cardinality({ p \in Positions(b) :
                    /\ p # <<r, c>>
                    /\ Dist(p[1], r) <= 1
                    /\ Dist(p[2], c) <= 1
                    /\ Cell(b, p[1], p[2]) = 1 })

\* the last call was board_next on two boards of the heap and a rule set
SteppedBoards ==
    /\ call.op = "board_next"
    /\ call.args.board # 0
    /\ call.args.out # 0
    /\ call.args.rules # 0

\* ... and it passed the dimension check
PassedCheck ==
    /\ SteppedBoards
    /\ pre.boards[call.args.board].height = pre.boards[call.args.out].height
    /\ pre.boards[call.args.board].width = pre.boards[call.args.out].width

\* the input board as it was when the call was made, and the output board now
InputBoard == pre.boards[call.args.board]
OutputBoard == boards[call.args.out]

\* C1: board_next into a separate board of the same dimensions returns 0 and
\* leaves in every output cell the value rules_apply gives for the input cell
\* and the number of alive in-grid cells adjacent to it in the input.
C1_NextAppliesRulesToNeighbours ==
    (PassedCheck /\ call.args.board # call.args.out /\ ZeroOne(InputBoard)) =>
        /\ call.ret = 0
        /\ \A p \in Positions(InputBoard) :
              Cell(OutputBoard, p[1], p[2])
                 = rules_apply(rules, Cell(InputBoard, p[1], p[2]),
                               AliveAdjacent(InputBoard, p[1], p[2]), 1, 0).result

\* a 2x3 board with three alive cells stepped under HighLife into a board that
\* was all alive: the three survive or are born where they have 2 or 3
\* neighbours, and the rest of the output is now dead
C1_Witness ==
    /\ PassedCheck
    /\ call.args.board = 1
    /\ call.args.out = 2
    /\ call.ret = 0
    /\ rules = rules_highlife(TRUE)
    /\ InputBoard = BoardOf(2, 3, {<<0, 0>>, <<0, 1>>, <<1, 1>>})
    /\ pre.boards[2] = Board(2, 3, [k \in 0 .. 5 |-> 1])
    /\ OutputBoard = BoardOf(2, 3, {<<0, 0>>, <<0, 1>>, <<1, 0>>, <<1, 1>>})

\* the 3x3 block around (x, y), clamped to the board, without (x, y)
ClampedBlock(b, x, y) ==
    ( ((IF x = 0 THEN 0 ELSE x - 1) .. (IF x = b.height - 1 THEN x ELSE x + 1))
      \X ((IF y = 0 THEN 0 ELSE y - 1) .. (IF y = b.width - 1 THEN y ELSE y + 1)) )
    \ {<<x, y>>}

\* C2: for every board is_cell_alive_next_gen has scanned and every position
\* in bounds, the neighbour count is in 0..8 and is the number of alive cells
\* of the clamped 3x3 block around the position, the position itself left
\* out; the corner (0, 0) never counts more than 3.
C2_NeighbourCountClamped ==
    (PassedCheck /\ ZeroOne(InputBoard)) =>
        /\ \A p \in Positions(InputBoard) :
              LET count == NeighborCount(InputBoard, p[1], p[2])
              IN  /\ count \in 0 .. 8
                  /\ count = Cardinality({ q \in ClampedBlock(InputBoard, p[1], p[2]) :
                                             Cell(InputBoard, q[1], q[2]) = 1 })
        /\ NeighborCount(InputBoard, 0, 0) <= 3

\* the all-alive 3x3 board has been stepped under Conway's rules: its centre
\* counted 8 neighbours, its corner (0, 0) counted 3, an edge cell 5, so only
\* the corners are alive in the output
C2_Witness ==
    /\ PassedCheck
    /\ call.ret = 0
    /\ rules = rules_conway(TRUE)
    /\ InputBoard = Board(3, 3, [k \in 0 .. 8 |-> 1])
    /\ NeighborCount(InputBoard, 1, 1) = 8
    /\ NeighborCount(InputBoard, 0, 0) = 3
    /\ NeighborCount(InputBoard, 0, 1) = 5
    /\ call.args.board # call.args.out
    /\ OutputBoard = BoardOf(3, 3, {<<0, 0>>, <<0, 2>>, <<2, 0>>, <<2, 2>>})

\* the call left every board other than its output board as it was
OnlyOutWritten == \A id \in BoardIds : id # call.args.out => boards[id] = pre.boards[id]

\* C3 as stated: whenever board_next passes its precondition check, the input
\* board is the same after the call, only the output board is written, and
\* no cell written by the call is read by it.
C3_InputUntouchedWheneverChecked ==
    PassedCheck =>
        /\ boards[call.args.board] = InputBoard
        /\ OnlyOutWritten
        /\ ~dirty

\* C3, amended: whenever board_next passes its precondition check only the
\* output board is written; if moreover the output board is not the input
\* board itself, the input board is the same after the call and no cell
\* written by the call is read by it.
C3_InputUntouchedWhenSeparate ==
    PassedCheck =>
        /\ OnlyOutWritten
        /\ call.args.board # call.args.out =>
              /\ boards[call.args.board] = InputBoard
              /\ ~dirty

\* a step from board 1 into board 2 that changed board 2 and not board 1
C3_Witness ==
    /\ PassedCheck
    /\ call.args.board = 1
    /\ call.args.out = 2
    /\ call.ret = 0
    /\ InputBoard = BoardOf(3, 3, {<<0, 1>>, <<1, 1>>, <<2, 1>>})
    /\ boards[1] = InputBoard
    /\ boards[2] # pre.boards[2]
    /\ OutputBoard = BoardOf(3, 3, {<<1, 0>>, <<1, 1>>, <<1, 2>>})
    /\ ~dirty

\* C4: board_next returns -1 whenever an argument is NULL or the output
\* board's height or width differs from the input board's, and then no cell
\* of any board is changed.
C4_MismatchRejected ==
    (call.op = "board_next" /\ ~PassedCheck) =>
        /\ call.ret = -1
        /\ boards = pre.boards

\* a board with alive cells stepped into a board with one more column
C4_Witness ==
    /\ SteppedBoards
    /\ call.args.board = 1
    /\ call.args.out = 4
    /\ InputBoard.width + 1 = pre.boards[4].width
    /\ InputBoard.height = pre.boards[4].height
    /\ InputBoard = BoardOf(2, 2, {<<0, 0>>, <<0, 1>>, <<1, 0>>})
    /\ call.ret = -1
    /\ boards = pre.boards

\* the board has exactly one alive cell
OneAlive(b) == ZeroOne(b) /\ Cardinality({ k \in DOMAIN b.cells : b.cells[k] = 1 }) = 1

\* C10: a board with exactly one alive cell, whatever its size and wherever
\* the cell, steps under Conway's rules to a board with every cell dead.
C10_SingleCellDies ==
    ( /\ PassedCheck
      /\ call.args.board # call.args.out
      /\ rules = rules_conway(TRUE)
      /\ OneAlive(InputBoard) ) =>
        /\ call.ret = 0
        /\ \A k \in DOMAIN OutputBoard.cells : OutputBoard.cells[k] = 0

\* the single alive cell in a corner of a 4x4 board, stepped into a board
\* that was all alive
C10_Witness ==
    /\ PassedCheck
    /\ call.args.board = 1
    /\ call.args.out = 2
    /\ call.ret = 0
    /\ rules = rules_conway(TRUE)
    /\ InputBoard = BoardOf(4, 4, {<<3, 3>>})
    /\ pre.boards[2] = Board(4, 4, [k \in 0 .. 15 |-> 1])
    /\ OutputBoard = DeadBoard(4, 4)

\* the output board of a second run of board_next: on the same input board and
\* rule set, into a board of the same dimensions whose cells all held `fill`
SecondRun(fill) ==
    board_next(Heap(InputBoard, fill), 1, 2, pre.rules).boards[2]

\* C16: board_next is deterministic in its input board and rule set: the
\* output board of a successful run equals the output board of every other
\* run on an equal input board and rule set, whatever the output boards held
\* before the calls.
C16_OutputIndependentOfOldOutput ==
    ( /\ PassedCheck
      /\ call.args.board # call.args.out
      /\ call.ret = 0 ) =>
        \A fill \in {0, 1} : SecondRun(fill) = OutputBoard

\* a run into an all-alive board whose result has dead cells
C16_Witness ==
    /\ PassedCheck
    /\ call.args.board = 1
    /\ call.args.out = 2
    /\ call.ret = 0
    /\ pre.boards[2] = Board(2, 3, [k \in 0 .. 5 |-> 1])
    /\ InputBoard = BoardOf(2, 3, {<<0, 0>>, <<0, 1>>, <<1, 0>>})
    /\ OutputBoard # pre.boards[2]
    /\ SecondRun(0) = OutputBoard

----------------------------------------------------------------------------
(* The blinker (checked under SpecSteps).                                  *)

\* C9: under Conway's rules a step from the 5x5 horizontal blinker yields the
\* vertical blinker, and a step from the vertical blinker (the next step,
\* once the buffers are swapped) yields the horizontal blinker again.
C9_BlinkerOscillates ==
    ( /\ PassedCheck
      /\ call.args.board # call.args.out
      /\ rules = rules_conway(TRUE) ) =>
        /\ InputBoard = HBlinker => (call.ret = 0 /\ OutputBoard = VBlinker)
        /\ InputBoard = VBlinker => (call.ret = 0 /\ OutputBoard = HBlinker)

\* the second step: from board 2, which the first step filled with the
\* vertical blinker, back into board 1
C9_Witness ==
    /\ PassedCheck
    /\ call.args.board = 2
    /\ call.args.out = 1
    /\ call.ret = 0
    /\ rules = rules_conway(TRUE)
    /\ InputBoard = VBlinker
    /\ boards[2] = VBlinker
    /\ boards[1] = HBlinker

----------------------------------------------------------------------------
(* The other board functions, one call per behaviour: board 1 is a board   *)
(* of any content, or a board whose cell buffer could not be allocated.    *)

OpsDims ==
    { d \in (1 .. MaxOpsH) \X (1 .. MaxOpsW) : d[1] * d[2] <= MaxOpsCells }

OpsBoards ==
    UNION { { Board(d[1], d[2], c) : c \in AllCells(d[1] * d[2]) } : d \in OpsDims }

\* the bytes of the files: newline, '0', '1', and the bytes 0x80 and 0xFF,
\* which are negative once stored in a char
Bytes == {NEWLINE, ZERO, 49, 128, 255}

Texts == UNION { [1 .. n -> Bytes] : n \in 0 .. MaxTextLen }

\* the files: one that cannot be opened, and one of every text
Files == {File(FALSE, <<>>)} \cup { File(TRUE, t) : t \in Texts }

\* mouse coordinates: left of the window, in the border, in the cells 0, 1, 2
\* and 3 of the board
MouseCoords == {-15, -5, 5, 15, 25, 35, 45}

\* the values rand() returns: 0 and 5 are multiples of 5, 1 and 4 are not
RandValues == {0, 1, 4, 5}

\* the random source of the caller of board_random_fill: draw i is the value
\* the i-th call of rand() returns
Draws == [0 .. MaxOpsCells - 1 -> RandValues]

\* the State objects handed to paint_cell_at_mouse: none, painting dead and
\* painting alive
PaintStates == {NullState, State(1, 1, 0, 0, 1, 0), State(1, 1, 0, 0, 1, 1)}

InitOps ==
    \E b \in OpsBoards \cup { Board(d[1], d[2], NullCells) : d \in OpsDims } :
        /\ boards = [id \in {1} |-> b]
        /\ rules = NullRules
        /\ result = 0
        /\ call = NoCall
        /\ pre = [boards |-> boards, rules |-> rules, result |-> result]
        /\ dirty = FALSE
        /\ state = NullState
        /\ main = NoMain
        /\ hist = NoHist

\* the call op(args) was made and had the outcome res
OpsCall(op, args, res) ==
    /\ boards' = res.boards
    /\ call' = [op |-> op, args |-> args, ret |-> res.ret]
    /\ pre' = [boards |-> boards, rules |-> rules, result |-> result]
    /\ UNCHANGED <<rules, result, dirty, state, main, hist>>

BoardInit ==
    /\ call = NoCall
    /\ \E malloc_ok \in BOOLEAN, calloc_ok \in BOOLEAN,
          height \in 1 .. MaxOpsH, width \in 1 .. MaxOpsW :
           OpsCall("board_init",
                   [malloc_ok |-> malloc_ok, calloc_ok |-> calloc_ok,
                    height |-> height, width |-> width],
                   board_init(boards, malloc_ok, calloc_ok, height, width))

BoardClear ==
    /\ call = NoCall
    /\ \E board \in {0, 1} :
           OpsCall("board_clear", [board |-> board], board_clear(boards, board))

\* board_from_file on board 1 and a file of any text
BoardFromFile ==
    /\ call = NoCall
    /\ \E file \in Files :
           OpsCall("board_from_file",
                   [filename |-> 1, board |-> 1, file |-> file],
                   board_from_file(boards, 1, 1, file))

\* board_from_file with a NULL argument
BoardFromFileNull ==
    /\ call = NoCall
    /\ \E filename \in {0, 1}, board \in {0, 1},
          file \in {File(FALSE, <<>>), File(TRUE, <<49>>)} :
           /\ filename = 0 \/ board = 0
           /\ OpsCall("board_from_file",
                      [filename |-> filename, board |-> board, file |-> file],
                      board_from_file(boards, filename, board, file))

\* board_random_fill on board 1 or on NULL, with any draws of the caller's
\* random source
BoardRandomFill ==
    /\ call = NoCall
    /\ \E board \in {0, 1}, rnd \in Draws :
           OpsCall("board_random_fill", [board |-> board, rnd |-> rnd],
                   board_random_fill(boards, board, rnd))

\* board_next from board 1 into a second board of the same dimensions, which
\* board_init has just made (as main() makes its two boards)
BoardNextInto ==
    /\ call = NoCall
    /\ boards[1].cells # NullCells
    /\ \E r \in {rules_conway(TRUE), rules_maze(TRUE)} :
           LET made == board_init(boards, TRUE, TRUE,
                                  boards[1].height, boards[1].width)
           IN  OpsCall("board_next",
                       [board |-> 1, out |-> made.ret, rules |-> r],
                       board_next(made.boards, 1, made.ret, r))

\* paint_cell_at_mouse; the board the main loop paints on has been filled, so
\* it has a cell buffer
PaintCellAtMouse ==
    /\ call = NoCall
    /\ boards[1].cells # NullCells
    /\ \E mouse_x \in MouseCoords, mouse_y \in MouseCoords, board \in {0, 1},
          st \in PaintStates :
           OpsCall("paint_cell_at_mouse",
                   [mouse_x |-> mouse_x, mouse_y |-> mouse_y, board |-> board,
                    state |-> st],
                   paint_cell_at_mouse(boards, mouse_x, mouse_y, board, st))

NextOps ==
    \/ BoardInit
    \/ BoardClear
    \/ BoardFromFile
    \/ BoardFromFileNull
    \/ BoardRandomFill
    \/ BoardNextInto
    \/ PaintCellAtMouse

SpecOps == InitOps /\ [][NextOps]_vars

----------------------------------------------------------------------------
(* Properties of the other board functions (checked under SpecOps).        *)

\* the board the call was made on, before the call and now
OpsBefore == pre.boards[1]
OpsAfter == boards[1]

\* the bytes of the file handed to board_from_file
FileBytes == call.args.file.bytes

\* the row and the column of the k-th byte of a text whose rows are delimited
\* by newlines: the number of newlines before it, and the number of bytes
\* between it and the last newline before it
RowOf(bytes, k) == Cardinality({ j \in 1 .. k - 1 : bytes[j] = NEWLINE })
ColOf(bytes, k) ==
    Cardinality({ j \in 1 .. k - 1 :
                    \A i \in j .. k - 1 : bytes[i] # NEWLINE })

\* the positions in the text of the characters (newlines apart) of row r
RowChars(bytes, r) ==
    { k \in 1 .. Len(bytes) : bytes[k] # NEWLINE /\ RowOf(bytes, k) = r }

\* the number of rows of a text: its lines, a last line without a newline
\* at its end included
NumRows(bytes) ==
    Cardinality({ k \in 1 .. Len(bytes) : bytes[k] = NEWLINE })
    + (IF Len(bytes) > 0 /\ bytes[Len(bytes)] # NEWLINE THEN 1 ELSE 0)

\* the text has no more rows than b and no row longer than a row of b
TextWithin(bytes, b) ==
    /\ NumRows(bytes) <= b.height
    /\ \A r \in 0 .. Len(bytes) : Cardinality(RowChars(bytes, r)) <= b.width

\* board_from_file was called on board 1 with a file that can be opened
LoadedFile ==
    /\ call.op = "board_from_file"
    /\ call.args.filename # 0
    /\ call.args.board # 0
    /\ call.args.file.readable
    /\ call.ret # Crash

\* C11: after a successful board_from_file the cell (r, c) is alive if and
\* only if the c-th character of the r-th row of the text exists and is not
\* '0'; the cells no character covers are dead, whatever the board held.
C11_LoadedCellsFollowText ==
    (LoadedFile /\ call.ret = 0) =>
        \A p \in Positions(OpsAfter) :
            Cell(OpsAfter, p[1], p[2]) =
                IF \E k \in RowChars(FileBytes, p[1]) :
                       /\ ColOf(FileBytes, k) = p[2]
                       /\ FileBytes[k] # ZERO
                THEN 1 ELSE 0

\* C12: board_from_file returns -1 for every text with more rows than the
\* board's height or a row longer than its width, returns 0 for every text
\* within the board's dimensions, and never changes the dimensions.
C12_FailsExactlyOnTooLargeText ==
    LoadedFile =>
        /\ call.ret = (IF TextWithin(FileBytes, OpsBefore) THEN 0 ELSE -1)
        /\ OpsAfter.height = OpsBefore.height
        /\ OpsAfter.width = OpsBefore.width

\* C13: board_init returns NULL whenever one of its two allocations fails, and
\* every board it returns has the requested height and width and
\* height*width cells, all dead.
C13_InitFailsOrBoardIsDead ==
    call.op = "board_init" =>
        /\ (~call.args.malloc_ok \/ ~call.args.calloc_ok) => call.ret = 0
        /\ call.ret # 0 =>
               boards[call.ret] = DeadBoard(call.args.height, call.args.width)

\* board_clear was called on a board and has returned
Cleared ==
    /\ call.op = "board_clear"
    /\ call.args.board # 0
    /\ call.ret # Crash

\* C14: after board_clear on a non-NULL board every cell is dead, whatever
\* the cells were, and height and width are unchanged; a second board_clear
\* leaves the board as the first one left it.
C14_ClearKillsAllAndIsIdempotent ==
    Cleared =>
        /\ call.ret = 0
        /\ OpsAfter = DeadBoard(OpsBefore.height, OpsBefore.width)
        /\ board_clear(boards, call.args.board) = [ret |-> 0, boards |-> boards]

\* board_clear on the 2x2 board with all cells alive
C14_Witness ==
    /\ Cleared
    /\ OpsBefore = Board(2, 2, [k \in 0 .. 3 |-> 1])
    /\ OpsAfter = DeadBoard(2, 2)

\* paint_cell_at_mouse was called on a board, with a State object
Painted ==
    /\ call.op = "paint_cell_at_mouse"
    /\ call.args.board # 0
    /\ call.args.state.ptr # 0

\* the cells of b the mouse position (mx, my) lies on: the cell (r, c) takes up
\* the pixels PIXEL_SIZE*(c+1) .. PIXEL_SIZE*(c+2)-1 across and
\* PIXEL_SIZE*(r+1) .. PIXEL_SIZE*(r+2)-1 down
CellsUnderMouse(b, mx, my) ==
    { p \in Positions(b) :
        /\ PIXEL_SIZE * (p[1] + 1) <= my /\ my < PIXEL_SIZE * (p[1] + 2)
        /\ PIXEL_SIZE * (p[2] + 1) <= mx /\ mx < PIXEL_SIZE * (p[2] + 2) }

\* C15: a paint at the mouse position (mx, my) whose cell (row my/10 - 1,
\* column mx/10 - 1) is inside the board sets exactly that cell to the paint
\* value and changes no other cell; a paint whose cell is outside the board
\* (the border and negative coordinates included) returns -1 and changes no
\* cell.
C15_PaintSetsExactlyTheCellUnderMouse ==
    Painted =>
        LET under == CellsUnderMouse(OpsBefore, call.args.mouse_x, call.args.mouse_y)
        IN  /\ OpsAfter.height = OpsBefore.height
            /\ OpsAfter.width = OpsBefore.width
            /\ \A p \in Positions(OpsBefore) :
                   Cell(OpsAfter, p[1], p[2]) =
                       IF p \in under THEN call.args.state.drag_paint_mode
                       ELSE Cell(OpsBefore, p[1], p[2])
            /\ call.ret = (IF under = {} THEN -1 ELSE 0)

\* a paint that sets the dead cell (row 0, column 1) of a 1x2 board alive
C15_Witness ==
    /\ Painted
    /\ OpsBefore = DeadBoard(1, 2)
    /\ call.args.mouse_x = 25
    /\ call.args.mouse_y = 15
    /\ call.ret = 0
    /\ OpsAfter = BoardOf(1, 2, {<<0, 1>>})

\* board_random_fill was called on a board and has returned
Filled ==
    /\ call.op = "board_random_fill"
    /\ call.args.board # 0
    /\ call.ret # Crash

\* C26: board_random_fill returns 0 and sets every cell i from the i-th draw
\* of the caller's random source: alive if and only if that draw modulo 5 is
\* 0, dead otherwise.  The result does not depend on what the cells held
\* (the same draws give the same cells on a dead board), and the draws are
\* those of the caller's source as it stands: nothing reseeds it.
C26_FillSetsEachCellFromItsOwnDraw ==
    Filled =>
        /\ call.ret = 0
        /\ OpsAfter.height = OpsBefore.height
        /\ OpsAfter.width = OpsBefore.width
        /\ \A i \in 0 .. OpsBefore.height * OpsBefore.width - 1 :
               OpsAfter.cells[i] = IF call.args.rnd[i] % 5 = 0 THEN 1 ELSE 0
        /\ board_random_fill([id \in {1} |-> DeadBoard(OpsBefore.height, OpsBefore.width)],
                             1, call.args.rnd).boards[1] = OpsAfter

\* a fill of the 2x2 board with all cells alive, with the draws 0, 1, 4, 5:
\* the first and the last cell are alive, the two others dead
C26_Witness ==
    /\ Filled
    /\ OpsBefore = Board(2, 2, [k \in 0 .. 3 |-> 1])
    /\ \A i \in 0 .. 3 : call.args.rnd[i] = <<0, 1, 4, 5>>[i + 1]
    /\ OpsAfter = Board(2, 2, [k \in 0 .. 3 |-> IF k \in {0, 3} THEN 1 ELSE 0])

\* the position in the text of the first character (newlines apart) that
\* lies outside the board b, 0 if there is none
Offending(bytes, b) ==
    LET outside == { k \in 1 .. Len(bytes) :
                        /\ bytes[k] # NEWLINE
                        /\ \/ RowOf(bytes, k) >= b.height
                           \/ ColOf(bytes, k) >= b.width }
    IN  IF outside = {} THEN 0
        ELSE CHOOSE k \in outside : \A j \in outside : k <= j

\* C30: board_from_file returns -1 and changes no cell when filename or
\* board is NULL or the file cannot be opened.  When it returns -1 on a file
\* it has opened, a character of the text lies outside the board, and the
\* board is dead except for the cells set alive by the characters before
\* the first such character.
C30_FailedLoadLeavesBoardOrPartialPattern ==
    /\ ( /\ call.op = "board_from_file"
         /\ \/ call.args.filename = 0
            \/ call.args.board = 0
            \/ ~call.args.file.readable ) =>
            /\ call.ret = -1
            /\ boards = pre.boards
    /\ (LoadedFile /\ call.ret = -1) =>
            LET stop == Offending(FileBytes, OpsBefore)
            IN  /\ stop # 0
                /\ OpsAfter.height = OpsBefore.height
                /\ OpsAfter.width = OpsBefore.width
                /\ \A p \in Positions(OpsAfter) :
                       Cell(OpsAfter, p[1], p[2]) =
                           IF \E k \in RowChars(FileBytes, p[1]) :
                                  /\ k < stop
                                  /\ ColOf(FileBytes, k) = p[2]
                                  /\ FileBytes[k] # ZERO
                           THEN 1 ELSE 0

\* a load into the 2x2 board with all cells alive of the text "0\n111",
\* whose second row is too long: it fails, leaving the cell (0, 0) dead by
\* the character '0', the cell (0, 1) dead by the clearing, and the cells
\* (1, 0) and (1, 1) alive by the characters before the offending one
C30_Witness ==
    /\ LoadedFile
    /\ call.ret = -1
    /\ OpsBefore = Board(2, 2, [k \in 0 .. 3 |-> 1])
    /\ FileBytes = <<ZERO, NEWLINE, 49, 49, 49>>
    /\ OpsAfter = BoardOf(2, 2, {<<1, 0>>, <<1, 1>>})

\* the accesses to the cells that the call makes: those of board_clear inside
\* board_from_file included
CallAccesses ==
    CASE call.op = "board_clear" /\ call.args.board # 0 ->
             FlatAccesses(OpsBefore)
      [] call.op = "board_random_fill" /\ call.args.board # 0 ->
             FlatAccesses(OpsBefore)
      [] LoadedFile ->
             FlatAccesses(OpsBefore)
             \cup LoadAccesses(OpsBefore, FileBytes, 1, 0, 0)
      [] Painted ->
             PaintAccesses(OpsBefore, call.args.mouse_x, call.args.mouse_y)
      [] call.op = "board_next" ->
             NextAccesses(OpsBefore)
      [] OTHER -> {}

\* the board the call writes to, as it is after the call
Written == IF call.op = "board_next" THEN boards[call.args.out] ELSE OpsAfter

\* C25: no call changes the height or the width of a board, and every
\* access to the cells that board_clear, board_random_fill, board_from_file,
\* paint_cell_at_mouse, is_cell_alive_next_gen and board_next make is to a
\* cell (row, col) with 0 <= row < height and 0 <= col < width by the index
\* row*width+col; the cells a call changes are among those it accesses.
C25_DimensionsFixedAndAccessesInBounds ==
    (call.op # "none" /\ OpsBefore.cells # NullCells) =>
        /\ \A id \in DOMAIN pre.boards :
               /\ boards[id].height = pre.boards[id].height
               /\ boards[id].width = pre.boards[id].width
               /\ DOMAIN boards[id].cells = DOMAIN pre.boards[id].cells
        /\ \A a \in CallAccesses :
               /\ 0 <= a[1] /\ a[1] < OpsBefore.height
               /\ 0 <= a[2] /\ a[2] < OpsBefore.width
               /\ a[3] = a[1] * OpsBefore.width + a[2]
        /\ call.op \in {"board_clear", "board_random_fill", "board_from_file",
                         "paint_cell_at_mouse"} =>
               \A i \in DOMAIN OpsBefore.cells :
                   OpsAfter.cells[i] # OpsBefore.cells[i] =>
                       \E a \in CallAccesses : a[3] = i
        /\ (call.op = "board_next" /\ call.ret = 0) =>
               /\ Written.height = OpsBefore.height
               /\ Written.width = OpsBefore.width
               /\ DOMAIN Written.cells = { a[3] : a \in CallAccesses }

\* a load into the 1x2 board of the text "1\n11", whose second row lies
\* below the board: the cell (0, 0) is the only one written by the loop
C25_Witness ==
    /\ LoadedFile
    /\ call.ret = -1
    /\ OpsBefore = DeadBoard(1, 2)
    /\ FileBytes = <<49, NEWLINE, 49, 49>>
    /\ LoadAccesses(OpsBefore, FileBytes, 1, 0, 0) = { <<0, 0, 0>> }
    /\ OpsAfter = BoardOf(1, 2, {<<0, 0>>})

\* C29: when the text fits the board, board_from_file returns 0 and every
\* byte of the file other than newline and '0' has set its cell (its row,
\* its column) alive, whatever its value: no byte ends the load before the
\* end of the file.
C29_EveryOtherByteSetsItsCellAlive ==
    (LoadedFile /\ TextWithin(FileBytes, OpsBefore)) =>
        /\ call.ret = 0
        /\ \A k \in 1 .. Len(FileBytes) :
               FileBytes[k] \notin {NEWLINE, ZERO} =>
                   Cell(OpsAfter, RowOf(FileBytes, k), ColOf(FileBytes, k)) = 1

----------------------------------------------------------------------------
(* process_events: one action per event it takes from the queue.  The      *)
(* board it works on is main's front board.                                *)

Polling == main.pc = "events"

\* the event was handled, leaving the State object st, the memory heap, the
\* rule set r behind *current_rules and the ghost record h
Handled(op, args, st, heap, r, h) ==
    /\ state' = st
    /\ boards' = heap
    /\ rules' = r
    /\ call' = [op |-> op, args |-> args, ret |-> 0]
    /\ hist' = h
    /\ UNCHANGED <<result, pre, dirty, main>>

Quit ==
    /\ Polling
    /\ Handled("SDL_QUIT", <<>>, [state EXCEPT !.keep_alive = 0], boards, rules, hist)

KeySpace ==
    /\ Polling
    /\ Handled("SDLK_SPACE", <<>>, [state EXCEPT !.pause = LogicalNot(state.pause)],
               boards, rules, [hist EXCEPT !.space = TRUE])

\* R: file is the file of the stored name as it is now
KeyR(file) ==
    /\ Polling
    /\ IF state.loaded_filename # 0
       THEN LET res == load_board_from_file(boards, state.loaded_filename,
                                            main.front, file)
            IN  Handled("SDLK_r", [file |-> file],
                        IF res.ret = 0 THEN [state EXCEPT !.pause = 1] ELSE state,
                        res.boards, rules, hist)
       ELSE Handled("SDLK_r", [file |-> file], state, boards, rules, hist)

KeyC ==
    /\ Polling
    /\ Handled("SDLK_c", <<>>, [state EXCEPT !.pause = 1],
               board_clear(boards, main.front).boards, rules, hist)

\* G: rnd[i] is the value rand() returns for cell i
KeyG(rnd) ==
    /\ Polling
    /\ Handled("SDLK_g", [rnd |-> rnd], [state EXCEPT !.pause = 1],
               board_random_fill(boards, main.front, rnd).boards, rules, hist)

\* T: the rule set is freed and the next creator called.  KeyTClears clears
\* the board as well.
KeyTClears(malloc_ok) ==
    /\ Polling
    /\ LET index == (state.current_rule_index + 1) % NUM_RULE_SETS
       IN  Handled("SDLK_t", [malloc_ok |-> malloc_ok],
                   [state EXCEPT !.current_rule_index = index],
                   board_clear(boards, main.front).boards,
                   rule_creators(index, malloc_ok), hist)
KeyT(malloc_ok) ==
    /\ Polling
    /\ LET index == (state.current_rule_index + 1) % NUM_RULE_SETS
       IN  Handled("SDLK_t", [malloc_ok |-> malloc_ok],
                   [state EXCEPT !.current_rule_index = index],
                   boards, rule_creators(index, malloc_ok), hist)

KeyH ==
    /\ Polling
    /\ Handled("SDLK_h", <<>>, state, boards, rules, hist)

\* ESC or Q
KeyQuit ==
    /\ Polling
    /\ Handled("SDLK_q", <<>>, [state EXCEPT !.keep_alive = 0], boards, rules, hist)

\* a button press at (x, y); ctrl tells whether a Ctrl key is held.
\* MouseButtonDownAnytime paints while the simulation runs as well.
MouseButtonDownAnytime(button, x, y, ctrl) ==
    /\ Polling
    /\ LET args == [button |-> button, x |-> x, y |-> y, ctrl |-> ctrl]
       IN  IF button = "left"
           THEN LET st == [state EXCEPT
                               !.drag_paint_mode = IF ctrl THEN 0 ELSE 1,
                               !.is_dragging = 1]
                IN  Handled("SDL_MOUSEBUTTONDOWN", args, st,
                            paint_cell_at_mouse(boards, x, y, main.front, st).boards,
                            rules, [hist EXCEPT !.ctrl = ctrl])
           ELSE Handled("SDL_MOUSEBUTTONDOWN", args, state, boards, rules, hist)
MouseButtonDown(button, x, y, ctrl) ==
    /\ Polling
    /\ LET args == [button |-> button, x |-> x, y |-> y, ctrl |-> ctrl]
       IN  IF state.pause # 0 /\ button = "left"
           THEN LET st == [state EXCEPT
                               !.drag_paint_mode = LogicalNot(IF ctrl THEN 1 ELSE 0),
                               !.is_dragging = 1]
                IN  Handled("SDL_MOUSEBUTTONDOWN", args, st,
                            paint_cell_at_mouse(boards, x, y, main.front, st).boards,
                            rules, [hist EXCEPT !.ctrl = ctrl])
           ELSE Handled("SDL_MOUSEBUTTONDOWN", args, state, boards, rules, hist)

MouseButtonUp(button) ==
    /\ Polling
    /\ Handled("SDL_MOUSEBUTTONUP", [button |-> button],
               IF button = "left" THEN [state EXCEPT !.is_dragging = 0] ELSE state,
               boards, rules, hist)

MouseMotion(x, y) ==
    /\ Polling
    /\ Handled("SDL_MOUSEMOTION", [x |-> x, y |-> y], state,
               IF state.pause # 0 /\ state.is_dragging # 0
               THEN paint_cell_at_mouse(boards, x, y, main.front, state).boards
               ELSE boards,
               rules, hist)

\* the queue is empty: process_events returns 0
NoEvent ==
    /\ Polling
    /\ main' = [main EXCEPT !.pc = "draw"]
    /\ call' = [op |-> "process_events", args |-> <<>>, ret |-> 0]
    /\ UNCHANGED <<boards, rules, result, pre, dirty, state, hist>>

----------------------------------------------------------------------------
(* One event handled by process_events in any state the main loop can be   *)
(* in: the front board has any content, the simulation is paused or        *)
(* running, a drag is under way or not, and any rule set is current.       *)

\* the values rand() returns for the cells 0, 1, 2, ... during a random fill:
\* all 0 (every cell alive), all 1 (every cell dead), and 0, 1, 2, ...
RandCells == MAX(MaxOpsCells, MainHeight * MainWidth) + 1
Rands ==
    { [i \in 0 .. RandCells |-> 0], [i \in 0 .. RandCells |-> 1],
      [i \in 0 .. RandCells |-> i] }

\* the file of the stored name at a reload: gone, one alive cell, two rows,
\* and a row of MaxOpsW + 2 characters, which no board has room for
EventFiles ==
    { File(FALSE, <<>>), File(TRUE, <<49>>), File(TRUE, <<ZERO, NEWLINE, 49>>),
      File(TRUE, [k \in 1 .. MaxOpsW + 2 |-> 49]) }

\* mouse coordinates of the events: in the border and in the cells 0, 1, 2, 3
EventCoords == {5, 15, 25, 35, 45}

InitEvents ==
    \E b \in OpsBoards, pause \in {0, 1}, is_dragging \in {0, 1},
       ctrl \in BOOLEAN, index \in 0 .. NUM_RULE_SETS - 1,
       loaded_filename \in {0, 1} :
        /\ boards = [id \in {1, 2} |->
                        IF id = 1 THEN b ELSE DeadBoard(b.height, b.width)]
        /\ rules = rule_creators(index, TRUE)
        /\ result = 0
        /\ call = NoCall
        /\ state = State(1, pause, loaded_filename, index, is_dragging,
                         IF ctrl THEN 0 ELSE 1)
        /\ pre = [boards |-> boards, rules |-> rules, result |-> result,
                  state |-> state]
        /\ dirty = FALSE
        /\ main = [pc |-> "events", front |-> 1, back |-> 2, error_code |-> 0]
        /\ hist = [NoHist EXCEPT !.ctrl = ctrl, !.made = {1, 2}]

NextEvents ==
    \/ call = NoCall /\ Quit
    \/ call = NoCall /\ KeySpace
    \/ call = NoCall /\ \E file \in EventFiles : KeyR(file)
    \/ call = NoCall /\ KeyC
    \/ call = NoCall /\ \E rnd \in Rands : KeyG(rnd)
    \/ call = NoCall /\ \E malloc_ok \in BOOLEAN : KeyT(malloc_ok)
    \/ call = NoCall /\ KeyH
    \/ call = NoCall /\ KeyQuit
    \/ call = NoCall /\ \E x \in EventCoords, y \in EventCoords, ctrl \in BOOLEAN :
                            MouseButtonDown("left", x, y, ctrl)
    \/ call = NoCall /\ \E ctrl \in BOOLEAN : MouseButtonDown("right", 15, 15, ctrl)
    \/ call = NoCall /\ \E button \in {"left", "right"} : MouseButtonUp(button)
    \/ call = NoCall /\ \E x \in EventCoords, y \in EventCoords : MouseMotion(x, y)
    \/ call = NoCall /\ NoEvent

SpecEvents == InitEvents /\ [][NextEvents]_vars

----------------------------------------------------------------------------
(* main(): start-up, the main loop and the clean-up.  main.pc is the       *)
(* position: "start", "load", "window", then "loop" (the test of the while *)
(* loop), "events" (inside process_events), "draw" and "next" (the call of *)
(* board_next), then one of the clean-up labels, and "exit"; "crashed"     *)
(* when an access through a NULL pointer has ended the process.            *)

\* main moves on to position pc, having made the call op with outcome ret
MainStep(pc, op, ret) ==
    /\ main' = [main EXCEPT !.pc = pc]
    /\ call' = [op |-> op, args |-> <<>>, ret |-> ret]

\* main leaves for a clean-up label with error_code 1
MainFail(label, op, ret) ==
    /\ main' = [main EXCEPT !.pc = label, !.error_code = 1]
    /\ call' = [op |-> op, args |-> <<>>, ret |-> ret]

InitMain ==
    /\ boards = <<>>
    /\ rules = NullRules
    /\ result = 0
    /\ call = NoCall
    /\ pre = [boards |-> boards, rules |-> rules, result |-> result,
              state |-> NullState]
    /\ dirty = FALSE
    /\ state = NullState
    /\ main = [pc |-> "start", front |-> 0, back |-> 0, error_code |-> 0]
    /\ hist = NoHist

\* the rule set, the two boards and the State object are allocated; each
\* parameter tells whether one of the allocations succeeds
MainInit(rules_ok, front_ok, front_cells_ok, back_ok, back_cells_ok, state_ok) ==
    /\ main.pc = "start"
    /\ LET r == rules_conway(rules_ok)
           f == board_init(boards, front_ok, front_cells_ok, MainHeight, MainWidth)
           b == board_init(f.boards, back_ok, back_cells_ok, MainHeight, MainWidth)
           st == state_init(state_ok)
       IN  IF r.ptr = 0
           THEN /\ main' = [main EXCEPT !.pc = "exit", !.error_code = 1]
                /\ call' = [op |-> "rules_conway", args |-> <<>>, ret |-> 0]
                /\ UNCHANGED <<boards, rules, state, hist>>
           ELSE IF f.ret = 0 \/ b.ret = 0
           THEN /\ main' = [main EXCEPT !.pc = "cleanup", !.error_code = 1,
                                        !.front = f.ret, !.back = b.ret]
                /\ call' = [op |-> "board_init", args |-> <<>>, ret |-> 0]
                /\ boards' = b.boards
                /\ rules' = r
                /\ hist' = [hist EXCEPT !.made = {f.ret, b.ret} \ {0}]
                /\ UNCHANGED state
           ELSE IF st.ret # 0
           THEN /\ main' = [main EXCEPT !.pc = "cleanup", !.error_code = 1,
                                        !.front = f.ret, !.back = b.ret]
                /\ call' = [op |-> "state_init", args |-> <<>>, ret |-> st.ret]
                /\ boards' = b.boards
                /\ rules' = r
                /\ hist' = [hist EXCEPT !.made = {f.ret, b.ret}]
                /\ UNCHANGED state
           ELSE /\ main' = [main EXCEPT !.pc = "load",
                                        !.front = f.ret, !.back = b.ret]
                /\ call' = [op |-> "state_init", args |-> <<>>, ret |-> 0]
                /\ boards' = b.boards
                /\ rules' = r
                /\ hist' = [hist EXCEPT !.made = {f.ret, b.ret}]
                /\ state' = st.state
    /\ UNCHANGED <<result, pre, dirty>>

\* the front board is loaded from the file named on the command line (argc >
\* 1), or filled at random; name_ok tells whether state_set_filename can
\* allocate the copy of the name
MainLoad(argc, file, name_ok, rnd) ==
    /\ main.pc = "load"
    /\ LET loaded == load_board_from_file(boards, 1, main.front, file)
           filled == board_random_fill(IF argc > 1 THEN loaded.boards ELSE boards,
                                       main.front, rnd)
       IN  IF argc > 1 /\ loaded.ret = 0
           THEN /\ MainStep("window", "load_board_from_file", 0)
                /\ boards' = loaded.boards
                /\ state' = state_set_filename(state, 1, name_ok).state
           ELSE IF (argc > 1 /\ loaded.ret = Crash) \/ filled.ret = Crash
           THEN /\ MainStep("crashed", "board_random_fill", Crash)
                /\ UNCHANGED <<boards, state>>
           ELSE IF argc > 1
           THEN /\ MainStep("window", "board_random_fill", filled.ret)
                /\ boards' = filled.boards
                /\ UNCHANGED state
           ELSE IF filled.ret # 0
           THEN /\ MainFail("cleanup", "board_random_fill", filled.ret)
                /\ boards' = filled.boards
                /\ UNCHANGED state
           ELSE /\ MainStep("window", "board_random_fill", 0)
                /\ boards' = filled.boards
                /\ UNCHANGED state
    /\ UNCHANGED <<rules, result, pre, dirty, hist>>

\* the window and the renderer are created, and the loop is entered paused
MainWindow(window_ok, renderer_ok) ==
    /\ main.pc = "window"
    /\ IF ~window_ok
       THEN MainFail("cleanup", "create_window", 0) /\ UNCHANGED state
       ELSE IF ~renderer_ok
       THEN MainFail("cleanup_window", "create_renderer", 0) /\ UNCHANGED state
       ELSE /\ MainStep("loop", "print_help", 0)
            /\ state' = [state EXCEPT !.pause = 1]
    /\ UNCHANGED <<boards, rules, result, pre, dirty, hist>>

\* while (state->keep_alive): process_events is called, or the loop is left.
\* LoopTestIgnoresQuit goes on whatever keep_alive is.
LoopTestIgnoresQuit ==
    /\ main.pc = "loop"
    /\ IF state.ptr = 0 \/ main.front = 0
       THEN MainFail("cleanup_renderer", "process_events", -1)
       ELSE MainStep("events", "SDL_PollEvent", 0)
    /\ UNCHANGED <<boards, rules, result, pre, dirty, state, hist>>
LoopTest ==
    /\ main.pc = "loop"
    /\ IF state.keep_alive = 0
       THEN MainStep("cleanup_renderer", "main", 0)
       ELSE IF state.ptr = 0 \/ main.front = 0
       THEN MainFail("cleanup_renderer", "process_events", -1)
       ELSE MainStep("events", "SDL_PollEvent", 0)
    /\ UNCHANGED <<boards, rules, result, pre, dirty, state, hist>>

\* the front board is drawn; a paused loop then starts over.
\* DrawIgnoresPause goes on to board_next whatever the pause flag is.
DrawIgnoresPause(sdl_ok) ==
    /\ main.pc = "draw"
    /\ LET drawn == board_draw(boards, main.front, sdl_ok)
       IN  IF drawn # 0
           THEN MainFail("cleanup_renderer", "board_draw", drawn)
           ELSE MainStep("next", "board_draw", 0)
    /\ UNCHANGED <<boards, rules, result, pre, dirty, state, hist>>
Draw(sdl_ok) ==
    /\ main.pc = "draw"
    /\ LET drawn == board_draw(boards, main.front, sdl_ok)
       IN  IF drawn # 0
           THEN MainFail("cleanup_renderer", "board_draw", drawn)
           ELSE IF state.pause # 0
           THEN MainStep("loop", "board_draw", 0)
           ELSE MainStep("next", "board_draw", 0)
    /\ UNCHANGED <<boards, rules, result, pre, dirty, state, hist>>

\* board_next(front, back, current_rules) and SWAP(Board *, front, back); the
\* first write into a back board without cell buffer ends the process.
\* StepWithoutSwap leaves front and back as they are.
StepWithoutSwap ==
    /\ main.pc = "next"
    /\ hist.gens < MaxGens
    /\ IF rules.ptr # 0 /\ boards[main.back].cells = NullCells
       THEN /\ MainStep("crashed", "board_next", Crash)
            /\ UNCHANGED <<boards, dirty, hist>>
       ELSE LET res == board_next(boards, main.front, main.back, rules)
            IN  /\ boards' = res.boards
                /\ dirty' = res.dirty
                /\ IF res.ret # 0
                   THEN MainFail("cleanup_renderer", "board_next", res.ret)
                        /\ UNCHANGED hist
                   ELSE /\ MainStep("loop", "board_next", 0)
                        /\ hist' = [hist EXCEPT !.gens = @ + 1]
    /\ UNCHANGED <<rules, result, pre, state>>
Step ==
    /\ main.pc = "next"
    /\ hist.gens < MaxGens
    /\ IF rules.ptr # 0 /\ boards[main.back].cells = NullCells
       THEN /\ MainStep("crashed", "board_next", Crash)
            /\ UNCHANGED <<boards, dirty, hist>>
       ELSE LET res == board_next(boards, main.front, main.back, rules)
            IN  /\ boards' = res.boards
                /\ dirty' = res.dirty
                /\ IF res.ret # 0
                   THEN MainFail("cleanup_renderer", "board_next", res.ret)
                        /\ UNCHANGED hist
                   ELSE /\ main' = [main EXCEPT !.pc = "loop",
                                                !.front = main.back,
                                                !.back = main.front]
                        /\ call' = [op |-> "board_next", args |-> <<>>, ret |-> 0]
                        /\ hist' = [hist EXCEPT
                                        !.gens = @ + 1,
                                        !.quit_gens =
                                            IF state.keep_alive = 0
                                            THEN @ + 1 ELSE @]
    /\ UNCHANGED <<rules, result, pre, state>>

\* the clean-up from the label main.pc on: cleanup_renderer frees the State
\* object and the rule set, cleanup frees the front board and then the back
\* board, each if its pointer is not NULL.  CleanupFrontOnly frees the front
\* board only.
CleanupFrontOnly ==
    /\ main.pc \in {"cleanup_renderer", "cleanup_window", "cleanup"}
    /\ state' = IF main.pc = "cleanup_renderer" THEN NullState ELSE state
    /\ rules' = IF main.pc = "cleanup_renderer" THEN NullRules ELSE rules
    /\ boards' = board_free(boards, main.front).boards
    /\ hist' = [hist EXCEPT !.freed =
                    @ \o (IF main.front # 0 THEN <<main.front>> ELSE <<>>)]
    /\ MainStep("exit", "board_free", 0)
    /\ UNCHANGED <<result, pre, dirty>>
Cleanup ==
    /\ main.pc \in {"cleanup_renderer", "cleanup_window", "cleanup"}
    /\ state' = IF main.pc = "cleanup_renderer" THEN NullState ELSE state
    /\ rules' = IF main.pc = "cleanup_renderer" THEN NullRules ELSE rules
    /\ LET front_freed == IF main.front # 0
                          THEN board_free(boards, main.front).boards
                          ELSE boards
           back_freed == IF main.back # 0
                         THEN board_free(front_freed, main.back).boards
                         ELSE front_freed
       IN  boards' = back_freed
    /\ hist' = [hist EXCEPT !.freed =
                    @ \o (IF main.front # 0 THEN <<main.front>> ELSE <<>>)
                      \o (IF main.back # 0 THEN <<main.back>> ELSE <<>>)]
    /\ MainStep("exit", "board_free", 0)
    /\ UNCHANGED <<result, pre, dirty>>

\* the inputs of the run: the file named on the command line and at a reload
\* (gone, holding the character '1', or holding the byte 0xFF), the values of
\* rand() (cell i gets the value i), and the mouse at (x, y) in the border
\* left of cell (0, 0) and in cell (0, 0)
MainFiles == { File(FALSE, <<>>), File(TRUE, <<49>>), File(TRUE, <<255>>) }
MainRands == { [i \in 0 .. RandCells |-> i] }
MainMouse == { <<5, 15>>, <<15, 15>> }

NextMain ==
    \/ \E rules_ok \in BOOLEAN, front_ok \in BOOLEAN, front_cells_ok \in BOOLEAN,
          back_ok \in BOOLEAN, back_cells_ok \in BOOLEAN, state_ok \in BOOLEAN :
           MainInit(rules_ok, front_ok, front_cells_ok, back_ok, back_cells_ok,
                    state_ok)
    \/ \E argc \in {1, 2}, file \in MainFiles, name_ok \in BOOLEAN, rnd \in MainRands :
           MainLoad(argc, file, name_ok, rnd)
    \/ \E window_ok \in BOOLEAN, renderer_ok \in BOOLEAN :
           MainWindow(window_ok, renderer_ok)
    \/ LoopTest
    \/ Quit
    \/ KeySpace
    \/ \E file \in MainFiles : KeyR(file)
    \/ KeyC
    \/ \E rnd \in MainRands : KeyG(rnd)
    \/ \E malloc_ok \in BOOLEAN : KeyT(malloc_ok)
    \/ KeyH
    \/ KeyQuit
    \/ \E m \in MainMouse, ctrl \in BOOLEAN : MouseButtonDown("left", m[1], m[2], ctrl)
    \/ MouseButtonDown("right", 15, 15, FALSE)
    \/ \E button \in {"left", "right"} : MouseButtonUp(button)
    \/ \E m \in MainMouse : MouseMotion(m[1], m[2])
    \/ NoEvent
    \/ \E sdl_ok \in BOOLEAN : Draw(sdl_ok)
    \/ Step
    \/ Cleanup

SpecMain == InitMain /\ [][NextMain]_vars

----------------------------------------------------------------------------
(* Properties of the event handling (checked under SpecEvents): the state  *)
(* before the event is pre, the event is call.                             *)

FrontBefore == pre.boards[main.front]
FrontNow == boards[main.front]

\* a left button press was handled while the simulation was paused
PressedWhilePaused ==
    /\ call.op = "SDL_MOUSEBUTTONDOWN"
    /\ call.args.button = "left"
    /\ pre.state.pause # 0

\* C18: a left mouse click on an in-bounds cell while the simulation is
\* paused toggles that cell: a dead cell becomes alive and an alive cell
\* becomes dead.
C18_ClickTogglesCell ==
    PressedWhilePaused =>
        \A p \in CellsUnderMouse(FrontBefore, call.args.x, call.args.y) :
            Cell(FrontNow, p[1], p[2]) = 1 - Cell(FrontBefore, p[1], p[2])

\* C20: handling a T key event changes no cell and no dimension of the front
\* or the back board (and not which board is front and which is back), for
\* every board content and every current rule index.
C20_RuleSwitchLeavesBoards ==
    call.op = "SDLK_t" =>
        /\ boards = pre.boards
        /\ main.front = 1
        /\ main.back = 2

\* T on a board with alive cells, taking the rule index from 3 back to 0
C20_Witness ==
    /\ call.op = "SDLK_t"
    /\ call.args.malloc_ok
    /\ pre.state.current_rule_index = 3
    /\ state.current_rule_index = 0
    /\ rules = rules_conway(TRUE)
    /\ FrontBefore = Board(2, 2, [k \in 0 .. 3 |-> 1])
    /\ FrontNow = FrontBefore

----------------------------------------------------------------------------
(* Properties of the main loop (checked under SpecMain).  A step of the    *)
(* loop is identified by the call it makes: call'.op.                      *)

LoopPositions == {"loop", "events", "draw", "next"}

\* the step changes a cell of the front board, or which board is the front
FrontChanges ==
    \/ main'.front # main.front
    \/ boards'[main'.front] # boards[main.front]

\* C17: a paused pass of the main loop does not call board_next and does not
\* swap front and back; the front board changes only by a board_next made
\* while the simulation runs, by the C, G and R key events and by mouse
\* painting; the loop is entered paused, no generation is computed before the
\* first SPACE key event, and each SPACE key event flips the pause flag.
C17_PausedLoopComputesNothing ==
    [][ /\ (main.pc = "draw" /\ state.pause # 0) =>
               /\ main'.pc # "next"
               /\ boards' = boards
               /\ main'.front = main.front /\ main'.back = main.back
        /\ call'.op = "board_next" => (main.pc = "next" /\ state.pause = 0)
        /\ main'.pc = "next" => state'.pause = 0
        /\ (main.pc \in LoopPositions /\ main'.pc \in LoopPositions /\ FrontChanges) =>
               IF call'.op = "board_next"
               THEN state.pause = 0
               ELSE call'.op \in {"SDLK_c", "SDLK_g", "SDLK_r",
                                  "SDL_MOUSEBUTTONDOWN", "SDL_MOUSEMOTION"}
        /\ (main.pc = "window" /\ main'.pc = "loop") => state'.pause = 1
        /\ ~hist'.space => hist'.gens = 0
        /\ call'.op = "SDLK_SPACE" =>
               /\ state.pause \in {0, 1}
               /\ state'.pause = 1 - state.pause
      ]_vars

\* a paused pass of the loop has been made after a generation was computed:
\* SPACE started the simulation, board_next ran, and SPACE paused it again
C17_Witness ==
    /\ main.pc = "loop"
    /\ call.op = "board_draw"
    /\ state.pause = 1
    /\ hist.space
    /\ hist.gens = 1
    /\ main.front = 2

\* the front board after the step is the front board before it with the
\* cell under the mouse position (x, y), if there is one, set to value
FrontPainted(x, y, value) ==
    /\ main'.front = main.front
    /\ boards'[main.back] = boards[main.back]
    /\ boards'[main.front].height = boards[main.front].height
    /\ boards'[main.front].width = boards[main.front].width
    /\ \A p \in Positions(boards[main.front]) :
           Cell(boards'[main.front], p[1], p[2]) =
               IF p \in CellsUnderMouse(boards[main.front], x, y) THEN value
               ELSE Cell(boards[main.front], p[1], p[2])

\* the step handles a left button press while the simulation is paused
PressStartsDrag ==
    /\ call'.op = "SDL_MOUSEBUTTONDOWN"
    /\ call'.args.button = "left"
    /\ state.pause # 0

\* C19: a button press or a mouse motion handled while the simulation runs
\* changes no cell.  While it is paused, a left button press starts a drag
\* and paints the cell under the mouse alive without Ctrl and dead with
\* Ctrl; every motion of the drag paints the cell under the mouse with the
\* value fixed by the Ctrl key at that press (hist.ctrl), a motion outside a
\* drag paints nothing, a drag starts in no other way, and a left button
\* release ends it.
C19_DragPaintsValueFixedAtPress ==
    [][ /\ ( /\ call'.op \in {"SDL_MOUSEBUTTONDOWN", "SDL_MOUSEMOTION"}
             /\ state.pause = 0 ) => boards' = boards
        /\ PressStartsDrag =>
               /\ FrontPainted(call'.args.x, call'.args.y,
                               IF call'.args.ctrl THEN 0 ELSE 1)
               /\ state'.is_dragging = 1
               /\ hist'.ctrl = call'.args.ctrl
        /\ ~PressStartsDrag =>
               /\ hist'.ctrl = hist.ctrl
               /\ state'.is_dragging # 0 => state.is_dragging # 0
        /\ (call'.op = "SDL_MOUSEMOTION" /\ state.pause # 0) =>
               IF state.is_dragging # 0
               THEN FrontPainted(call'.args.x, call'.args.y,
                                 IF hist.ctrl THEN 0 ELSE 1)
               ELSE boards' = boards
        /\ ( /\ call'.op = "SDL_MOUSEBUTTONUP"
             /\ call'.args.button = "left" ) => state'.is_dragging = 0
      ]_vars

\* a motion over cell (0, 0) in a drag that was started with Ctrl held, on
\* the second board after two generations: cell (0, 0) is dead
C19_Witness ==
    /\ main.pc = "events"
    /\ call.op = "SDL_MOUSEMOTION"
    /\ call.args = [x |-> 15, y |-> 15]
    /\ state.pause = 1
    /\ state.is_dragging = 1
    /\ hist.ctrl
    /\ state.drag_paint_mode = 0
    /\ hist.gens = 2
    /\ Cell(boards[main.front], 0, 0) = 0

----------------------------------------------------------------------------
(* The lifetime of the boards in main() (checked under SpecMain).          *)

\* the number of times the board id has been handed to board_free
TimesFreed(id) ==
    Cardinality({ k \in 1 .. Len(hist.freed) : hist.freed[k] = id })

\* C24: when main has returned, by whatever path, every board board_init
\* returned has been freed exactly once, and with it its cell buffer (the
\* object is gone from the memory as a whole).  In every state, nothing but
\* such a board has been freed, none has been freed twice, no board is freed
\* before the clean-up at the end of main, and until then front and back
\* are, whatever the number of swaps, exactly the boards board_init
\* returned, both still allocated.  (A run that an access through a NULL
\* cell buffer ends does not return from main and frees nothing.)
C24_BoardsFreedExactlyOnce ==
    /\ \A k \in 1 .. Len(hist.freed) :
           /\ hist.freed[k] \in hist.made
           /\ TimesFreed(hist.freed[k]) = 1
           /\ hist.freed[k] \notin DOMAIN boards
    /\ hist.freed # <<>> => main.pc = "exit"
    /\ main.pc = "exit" =>
           /\ \A id \in hist.made : TimesFreed(id) = 1
           /\ DOMAIN boards = {}
    /\ main.pc \notin {"start", "exit"} =>
           /\ {main.front, main.back} \ {0} = hist.made
           /\ hist.made = DOMAIN boards
           /\ main.front # 0 /\ main.back # 0 => main.front # main.back

\* main has returned after the normal quit of a run in which two generations
\* were computed, so that front and back were swapped twice, and both boards
\* have been freed
C24_Witness ==
    /\ main.pc = "exit"
    /\ main.error_code = 0
    /\ hist.gens = 2
    /\ hist.made = {1, 2}
    /\ hist.freed = <<1, 2>>
    /\ DOMAIN boards = {}

----------------------------------------------------------------------------
(* The double buffering of the main loop (checked under SpecMain).         *)

\* the generation after board b under the rule set r
NextGeneration(b, r) ==
    Board(b.height, b.width,
          [i \in 0 .. b.height * b.width - 1 |->
              rules_apply(r, b.cells[i],
                          AliveAdjacent(b, i \div b.width, i % b.width),
                          1, 0).result])

\* C27: whenever the main loop is about to call board_next (main.pc is
\* "next"), front and back are two distinct allocated boards of the same
\* height and width, after any number of steps and swaps; the call fails
\* only on a NULL rule set, never on the dimensions, and never reads a cell
\* it has written; after a successful call front is the former back and
\* holds the generation after the former front, which is now back, unchanged.
C27_StepUsesTwoBoardsOfEqualDimensions ==
    [][ /\ main'.pc = "next" =>
               /\ main'.front # 0 /\ main'.back # 0
               /\ main'.front # main'.back
               /\ {main'.front, main'.back} \subseteq DOMAIN boards'
               /\ boards'[main'.front].height = boards'[main'.back].height
               /\ boards'[main'.front].width = boards'[main'.back].width
        /\ call'.op = "board_next" =>
               /\ main.pc = "next"
               /\ call'.ret = -1 => rules.ptr = 0
               /\ ~dirty'
               /\ call'.ret = 0 =>
                      /\ main'.front = main.back
                      /\ main'.back = main.front
                      /\ boards'[main'.back] = boards[main.front]
                      /\ boards'[main'.front] =
                             NextGeneration(boards[main.front], rules)
      ]_vars

\* the second generation has been computed under the HighLife rules: front
\* is the first board again, and the loop is back at its test
C27_Witness ==
    /\ main.pc = "loop"
    /\ call.op = "board_next"
    /\ call.ret = 0
    /\ hist.gens = 2
    /\ main.front = 1
    /\ main.back = 2
    /\ state.current_rule_index = 1
    /\ rules = rules_highlife(TRUE)

----------------------------------------------------------------------------
(* The cell values in main() (checked under SpecMain).                     *)

\* C28: in every state of a run of main, every cell of every board is 0 or
\* 1, whatever board_init, board_clear, board_random_fill, board_from_file,
\* the mouse painting and board_next have done so far.  So, when board_next
\* is about to be called with a rule set, the neighbour count of every cell
\* of the front board is in 0..8 and is_cell_alive_next_gen succeeds on it,
\* and set_pixel_color accepts every cell of the front board (board_draw
\* fails only when a call of SDL fails).
C28_CellsAreZeroOrOne ==
    /\ \A id \in DOMAIN boards : ZeroOne(boards[id])
    /\ (main.pc = "next" /\ rules.ptr # 0) =>
           \A p \in Positions(boards[main.front]) :
               /\ NeighborCount(boards[main.front], p[1], p[2]) \in 0 .. 8
               /\ is_cell_alive_next_gen(boards, main.front, rules,
                                         p[1], p[2], 1, 0).ret = 0
    /\ main.pc = "draw" =>
           /\ \A i \in DOMAIN boards[main.front].cells :
                  set_pixel_color(boards[main.front].cells[i], TRUE) = 0
           /\ board_draw(boards, main.front, TRUE) = 0

\* board_next is about to be called for the second time, on a front board
\* whose cell (0, 0) the mouse has painted alive after the first generation
C28_Witness ==
    /\ main.pc = "next"
    /\ rules.ptr # 0
    /\ hist.gens = 1
    /\ call.op = "board_draw"
    /\ Cell(boards[main.front], 0, 0) = 1
    /\ state.drag_paint_mode = 1
    /\ state.is_dragging = 1

----------------------------------------------------------------------------
(* Quitting (checked under SpecMain).                                      *)

\* a quit event has been handled: keep_alive is 0
Quitted == state.ptr # 0 /\ state.keep_alive = 0

\* C23: a quit event (window close, ESC or Q) clears keep_alive and leaves
\* process_events running; from then on no step sets keep_alive again, and
\* process_events is not entered again: the pass goes on to the drawing and,
\* if the simulation is not paused, to board_next, and the next test of the
\* loop condition leaves the loop for the clean-up.  So at most one
\* generation is computed after the quit event, and none while paused.
C23_QuitEndsLoopAfterCurrentPass ==
    [][ /\ call'.op \in {"SDL_QUIT", "SDLK_q"} =>
               /\ state'.keep_alive = 0
               /\ main'.pc = "events"
        /\ Quitted =>
               /\ state'.ptr # 0 => state'.keep_alive = 0
               /\ main'.pc = "events" => main.pc = "events"
               /\ call'.op = "process_events" => main'.pc = "draw"
               /\ (main.pc = "draw" /\ call'.ret = 0) =>
                      main'.pc = (IF state.pause # 0 THEN "loop" ELSE "next")
               /\ call'.op = "board_next" =>
                      /\ state.pause = 0
                      /\ hist.quit_gens = 0
                      /\ main'.pc \in {"loop", "cleanup_renderer", "crashed"}
               /\ main.pc = "loop" =>
                      /\ main'.pc = "cleanup_renderer"
                      /\ main'.error_code = main.error_code
        /\ hist'.quit_gens <= 1
        /\ hist'.quit_gens # hist.quit_gens =>
               (Quitted /\ call'.op = "board_next" /\ call'.ret = 0)
      ]_vars

\* main has returned without error after a quit event that was handled
\* while the simulation was running: one more generation was computed
C23_Witness ==
    /\ main.pc = "exit"
    /\ main.error_code = 0
    /\ call.op = "board_free"
    /\ hist.quit_gens = 1
    /\ hist.gens = 2

----------------------------------------------------------------------------
(* The rule set of the main loop (checked under SpecMain).                 *)

\* the rule set rule_creators[index] makes
Preset(index) == rule_creators(index, TRUE)

\* C21: a T key event takes current_rule_index to (index + 1) mod 4 and
\* makes the preset at the new index the active rule set (the order is
\* Conway, HighLife, Day & Night, Maze); the loop is entered with index 0
\* and the Conway rules; in every state of the main loop the index is in
\* 0..3 and the active rule set is the preset at the index; four T key
\* events lead back to the index they started from.
C21_ActiveRulesArePresetAtIndex ==
    [][ /\ call'.op = "SDLK_t" =>
               /\ state'.current_rule_index =
                      (state.current_rule_index + 1) % NUM_RULE_SETS
               /\ rules' = Preset(state'.current_rule_index)
               /\ LET next(i) == (i + 1) % NUM_RULE_SETS
                  IN  next(next(next(next(state.current_rule_index))))
                          = state.current_rule_index
        /\ (main.pc = "window" /\ main'.pc = "loop") =>
               /\ state'.current_rule_index = 0
               /\ rules' = rules_conway(TRUE)
        /\ main'.pc \in LoopPositions =>
               /\ state'.current_rule_index \in 0 .. NUM_RULE_SETS - 1
               /\ rules' = Preset(state'.current_rule_index)
        /\ Preset(0) = rules_conway(TRUE) /\ Preset(1) = rules_highlife(TRUE)
        /\ Preset(2) = rules_day_night(TRUE) /\ Preset(3) = rules_maze(TRUE)
      ]_vars

----------------------------------------------------------------------------
(* Reloading (checked under SpecMain).                                     *)

\* the pattern of a text on a board of the given dimensions: the cell (r, c)
\* is alive if and only if the c-th character of the r-th row of the text
\* exists and is not '0'
Pattern(bytes, height, width) ==
    BoardOf(height, width,
            { <<RowOf(bytes, k), ColOf(bytes, k)>> :
                  k \in { j \in 1 .. Len(bytes) : bytes[j] \notin {NEWLINE, ZERO} } })

\* C22: a filename is stored in the state only by the start-up of main, when
\* the file named on the command line has been loaded successfully.  An R
\* key event with no stored filename changes no board and not the pause
\* flag; a reload that succeeds leaves the front board equal to the pattern
\* of the file's text, the back board as it was, and the pause flag set; a
\* reload that fails leaves the pause flag as it was.
C22_ReloadOnlyFromStartupFile ==
    [][ /\ (state'.ptr # 0 /\ state'.loaded_filename # state.loaded_filename) =>
               /\ main.pc = "load"
               /\ call'.op = "load_board_from_file"
               /\ call'.ret = 0
        /\ call'.op = "SDLK_r" =>
               IF state.loaded_filename = 0
               THEN /\ boards' = boards
                    /\ state' = state
               ELSE LET reload == load_board_from_file(boards, state.loaded_filename,
                                                       main.front, call'.args.file)
                    IN  /\ boards'[main.back] = boards[main.back]
                        /\ IF reload.ret = 0
                           THEN /\ boards'[main.front] =
                                       Pattern(call'.args.file.bytes,
                                               boards[main.front].height,
                                               boards[main.front].width)
                                /\ state'.pause = 1
                           ELSE state'.pause = state.pause
      ]_vars

----------------------------------------------------------------------------
(* The lifetime of the rule set and the fresh State (checked under         *)
(* SpecMain).  `rules` is the one rule set the program holds: NullRules    *)
(* when none is allocated, so a rule set that main leaves behind at its    *)
(* exit has not been freed.                                                *)

\* C31: while the main loop runs exactly one rule set is allocated and
\* active (a T key event frees the previous one and installs the next), and
\* when main has returned, by the normal quit or by any of its error exits,
\* the rule set has been freed: none is left allocated.
C31_RuleSetFreedOnEveryExit ==
    /\ main.pc \in LoopPositions => rules.ptr # 0
    /\ main.pc = "exit" => rules = NullRules

\* C32: the State object a successful state_init has just returned is
\* paused, with keep_alive set, no loaded filename, rule index 0, not
\* dragging and painting alive.
C32_FreshStateIsPaused ==
    (call.op = "state_init" /\ call.ret = 0) =>
        /\ state.ptr # 0
        /\ state.pause = 1
        /\ state.keep_alive = 1
        /\ state.loaded_filename = 0
        /\ state.current_rule_index = 0
        /\ state.is_dragging = 0
        /\ state.drag_paint_mode = 1
====
